---- MODULE Spec2Model ----
(***************************************************************************)
(* The review-to-ad job pipeline of the submission endpoint, in its two    *)
(* build variants:                                                         *)
(*   "link"   src/app/api/process/route.ts  (Maps link, image stage)       *)
(*   "manual" src/unnamed/part_002          (pasted review text)           *)
(* One request handler runs per submission; handlers interleave at every   *)
(* await.  The external collaborators are the environment: their replies   *)
(* are chosen nondeterministically when an awaited call resolves.          *)
(*                                                                         *)
(* Data representation.  A string that the code inspects character by      *)
(* character (a review, a Maps link) is a sequence of one-token strings;   *)
(* a string that the code only copies or compares is a TLA+ string.  A     *)
(* JavaScript value that may be absent is a record with a kind field k.    *)
(* The string "undefined" stands for the JavaScript value undefined.       *)
(***************************************************************************)
EXTENDS Integers, Sequences, FiniteSets, TLC

\* ---------------------------------------------------------------- bounds
\* number of submissions (request handlers) that may run concurrently
MaxReqs == 2
\* length of the raw inputs given to the review normalizer in SpecNorm
MaxText == 4
\* number of reviews given to the review normalizer as a list in SpecNorm
MaxList == 3
\* number of parts a Maps link is put together from in SpecLinks
MaxParts == 3
\* number of brand tones selected in SpecMood
MaxTones == 3
\* number of polls the results page makes from its timer in SpecClient
MaxPolls == 2
\* length of the content returned by the text-generation service in SpecFence
MaxContent == 6

\* ------------------------------------------------------ program constants
\* fetchReviews keeps the first 50 reviews of the details response
ReviewSliceLimit == 50
\* a token of 27 or more word characters counts as a canonical place id
PlaceIdMinLen == 27
\* processJob requires at least 3 normalized reviews
MinReviews == 3
\* generateAdImage has three candidate models
NumModels == 3

Undefined == "undefined"
DefaultCTA == "Learn more"

\* all sequences over S of length at most n
SeqsUpTo(S, n) == UNION {[1..k -> S] : k \in 0..n}

\* ------------------------------------------------------- string helpers
\* the characters String.prototype.trim removes (those the model uses)
WS == {" ", "\n"}

RECURSIVE trimStart(_)
trimStart(s) ==
  IF s # <<>> /\ Head(s) \in WS THEN trimStart(Tail(s)) ELSE s

RECURSIVE trimEnd(_)
trimEnd(s) ==
  IF s # <<>> /\ s[Len(s)] \in WS THEN trimEnd(SubSeq(s, 1, Len(s) - 1)) ELSE s

trim(s) == trimEnd(trimStart(s))

\* text.split("\n"): always at least one piece
RECURSIVE split(_)
split(text) ==
  IF \E i \in 1..Len(text) : text[i] = "\n"
  THEN LET i == CHOOSE k \in 1..Len(text) :
                  text[k] = "\n" /\ \A j \in 1..(k - 1) : text[j] # "\n"
       IN  <<SubSeq(text, 1, i - 1)>> \o split(SubSeq(text, i + 1, Len(text)))
  ELSE <<text>>

\* self.indexOf(x), 1-based; 0 where JavaScript gives -1
indexOf(self, x) ==
  IF \E i \in 1..Len(self) : self[i] = x
  THEN CHOOSE i \in 1..Len(self) : self[i] = x /\ \A j \in 1..(i - 1) : self[j] # x
  ELSE 0

MutMapTrimSkipped(reviews) == reviews

\* .map(review => review.trim())
mapTrim(reviews) == [i \in 1..Len(reviews) |-> trim(reviews[i])]

filterNonEmpty(reviews) == SelectSeq(reviews, LAMBDA review : Len(review) > 0)

\* .filter((review, index, self) => self.indexOf(review) === index)
MutFilterFirstOccurrenceKeepLast(self) ==
  LET F[i \in 0..Len(self)] ==
        IF i = 0 THEN <<>>
        ELSE IF \A j \in (i + 1)..Len(self) : self[j] # self[i]
             THEN Append(F[i - 1], self[i]) ELSE F[i - 1]
  IN  F[Len(self)]

filterFirstOccurrence(self) ==
  LET F[i \in 0..Len(self)] ==
        IF i = 0 THEN <<>>
        ELSE IF indexOf(self, self[i]) = i
             THEN Append(F[i - 1], self[i]) ELSE F[i - 1]
  IN  F[Len(self)]

\* route.ts: preprocessReviews(reviews: string[])
preprocessReviews(reviews) ==
  filterFirstOccurrence(filterNonEmpty(mapTrim(reviews)))

\* part_002: preprocessReviews(reviewsText: string)
preprocessReviewsText(reviewsText) ==
  filterFirstOccurrence(filterNonEmpty(mapTrim(split(reviewsText))))

\* ------------------------------------------------------ Place Resolver
\* A Maps link is a sequence of tokens: the delimiters "?", "&", "/", "@",
\* "=", the keywords "place_id", "place", "cid", and other text tokens.

\* the maximal run of tokens from position i on that are outside stop
RECURSIVE capture(_, _, _)
capture(url, i, stop) ==
  IF i > Len(url) \/ url[i] \in stop THEN <<>>
  ELSE <<url[i]>> \o capture(url, i + 1, stop)

NoMatch == [found |-> FALSE, id |-> <<>>]

\* url.match(/<lits>([^<stop>]+)/): the leftmost match, its capture greedy
match(url, lits, stop) ==
  LET n == Len(lits)
      hits == {i \in 1..Len(url) :
                 /\ i + n <= Len(url)
                 /\ \A k \in 1..n : url[i + k - 1] \in lits[k]
                 /\ url[i + n] \notin stop}
  IN  IF hits = {} THEN NoMatch
      ELSE LET i == CHOOSE h \in hits : \A g \in hits : h <= g
           IN  [found |-> TRUE, id |-> capture(url, i + n, stop)]

MutExtractPlaceIdCidFirst(url) ==
  LET placeIdMatch == match(url, <<{"place_id"}, {"="}>>, {"&"})
      cidMatch     == match(url, <<{"?", "&"}, {"cid"}, {"="}>>, {"&"})
      placeMatch   == match(url, <<{"/"}, {"place"}, {"/"}>>, {"/", "@"})
      directMatch  == match(url, <<{"/"}, {"place_id"}, {"/"}>>, {"/", "?"})
  IN  IF cidMatch.found THEN cidMatch
      ELSE IF placeIdMatch.found THEN placeIdMatch
      ELSE IF placeMatch.found THEN placeMatch
      ELSE IF directMatch.found THEN directMatch
      ELSE NoMatch

extractPlaceId(url) ==
  LET placeIdMatch == match(url, <<{"place_id"}, {"="}>>, {"&"})
      cidMatch     == match(url, <<{"?", "&"}, {"cid"}, {"="}>>, {"&"})
      placeMatch   == match(url, <<{"/"}, {"place"}, {"/"}>>, {"/", "@"})
      directMatch  == match(url, <<{"/"}, {"place_id"}, {"/"}>>, {"/", "?"})
  IN  IF placeIdMatch.found THEN placeIdMatch
      ELSE IF cidMatch.found THEN cidMatch
      ELSE IF placeMatch.found THEN placeMatch
      ELSE IF directMatch.found THEN directMatch
      ELSE NoMatch

\* tokens made of the characters [A-Za-z0-9_-] only
Delims == {"?", "&", "/", "@", "=", ":", ".", " ", "+", ","}
isWord(tok) == tok \notin Delims

RECURSIVE charLen(_)
charLen(id) == IF id = <<>> THEN 0 ELSE Len(Head(id)) + charLen(Tail(id))

\* tokens that begin with the characters ChIJ
ChIJTokens == {"ChIJabc123", "ChIJxyz789"}

\* placeIdOrQuery.startsWith("ChIJ") || placeIdOrQuery.match(/^[A-Za-z0-9_-]{27,}$/)
isValidPlaceId(id) ==
  \/ id # <<>> /\ Head(id) \in ChIJTokens
  \/ /\ \A i \in 1..Len(id) : isWord(id[i])
     /\ charLen(id) >= PlaceIdMinLen

MutSliceReviewsAll(reviews) == reviews

MutSliceReviewsOneMore(reviews) ==
  SubSeq(reviews, 1, IF Len(reviews) < ReviewSliceLimit + 1 THEN Len(reviews)
                     ELSE ReviewSliceLimit + 1)

\* .slice(0, 50).map(review => review.text).filter(text => text && text.trim().length > 0)
\* (a review without text is the empty sequence)
sliceReviews(reviews) ==
  SubSeq(reviews, 1, IF Len(reviews) < ReviewSliceLimit THEN Len(reviews) ELSE ReviewSliceLimit)

filterValidReviews(reviews) ==
  SelectSeq(sliceReviews(reviews), LAMBDA text : Len(text) > 0 /\ Len(trim(text)) > 0)

\* ----------------------------------------------------------- data shapes
Str(s)  == [k |-> "string", s |-> s]
NoStr   == [k |-> "undefined", s |-> <<>>]
NumStr  == [k |-> "number", s |-> <<>>]
Arr(a)  == [k |-> "array", a |-> a]
NoArr   == [k |-> "undefined", a |-> <<>>]

\* one section of the generated outputs (outputs.json, outputs.imageAd):
\* k is "absent" (undefined or another falsy value), "primitive" (a truthy
\* value that is no object) or "object"
Sec(k, c) == [k |-> k, cta |-> c, imageUrl |-> Undefined]
NoSec     == Sec("absent", Undefined)

\* outputs.marketingCopy: absent, a flat string, or the structured bundle
MC(k, ctas) == [k |-> k, ctas |-> ctas]
NoMC        == MC("absent", <<>>)

NoInsights == [kind |-> "undefined", reviewCount |-> 0, lists |-> "missing"]
NoOutputs  == [kind |-> "undefined", json |-> NoSec, imageAd |-> NoSec,
               marketingCopy |-> NoMC]

\* the request body as request.json() sees it: json is "invalid" (the body
\* is no JSON text), "null" or "object"
Body(json, link, reviews, lists, tone, ctas) ==
  [json |-> json, businessName |-> "Cafe Uno",
   googleMapsLink |-> link, reviews |-> reviews,
   businessType |-> lists, marketingGoal |-> lists, targetAudience |-> lists,
   advertisingPlatform |-> lists, brandTone |-> tone, preferredCTA |-> ctas]

\* ------------------------------------------------------------- messages
LLM(v) == IF v = "link" THEN "Groq" ELSE "OpenAI"
LLMKey(v) == IF v = "link" THEN "GROQ_API_KEY" ELSE "OPENAI_API_KEY"
NotSet(key) == key \o " environment variable is not set"
ParseFailure == "Failed to parse AI response as JSON"
TooFewReviews == "At least 3 reviews are required"
InvalidLink == "Invalid Google Maps URL. Please provide a valid Google Maps business link."
JoinOfUndefined == "Cannot read properties of undefined (reading 'join')"
ImageFailure(lastError) ==
  "Failed to generate image: Hugging Face API error: All models failed. Last error: "
    \o (IF lastError = "" THEN "Unknown error" ELSE lastError)
    \o ". Please check your API key and model availability."

Ok(v)   == [ok |-> TRUE, msg |-> "", v |-> v]
Err(m, v) == [ok |-> FALSE, msg |-> m, v |-> v]

\* ------------------------------------------------------- fence stripping
\* The content of an answer is a sequence of tokens: "fence" (three
\* backticks), the word "json", the line break, the double quote "q" and
\* the letter "x".

\* content.replace(/```json\n?/g, "")
RECURSIVE replaceJsonFence(_)
replaceJsonFence(text) ==
  IF text = <<>> THEN <<>>
  ELSE IF Len(text) >= 2 /\ text[1] = "fence" /\ text[2] = "json"
  THEN IF Len(text) >= 3 /\ text[3] = "\n"
       THEN replaceJsonFence(SubSeq(text, 4, Len(text)))
       ELSE replaceJsonFence(SubSeq(text, 3, Len(text)))
  ELSE <<Head(text)>> \o replaceJsonFence(Tail(text))

\* .replace(/```\n?/g, "")
RECURSIVE replaceFence(_)
replaceFence(text) ==
  IF text = <<>> THEN <<>>
  ELSE IF text[1] = "fence"
  THEN IF Len(text) >= 2 /\ text[2] = "\n"
       THEN replaceFence(SubSeq(text, 3, Len(text)))
       ELSE replaceFence(SubSeq(text, 2, Len(text)))
  ELSE <<Head(text)>> \o replaceFence(Tail(text))

cleanedContent(content) == trim(replaceFence(replaceJsonFence(content)))

\* JSON.parse of a text of these tokens: the only values they can spell
\* are strings, a quote, characters other than quote and line break, a
\* quote, with white space around; everything else is a SyntaxError
JSONparse(text) ==
  LET t == trim(text)
  IN  IF /\ Len(t) >= 2 /\ t[1] = "q" /\ t[Len(t)] = "q"
         /\ \A i \in 2..(Len(t) - 1) : t[i] \notin {"q", "\n"}
      THEN [ok |-> TRUE, value |-> SubSeq(t, 2, Len(t) - 1)]
      ELSE [ok |-> FALSE, value |-> <<>>]

\* ----------------------------------------------------- Insight Extractor
\* insights.reviewCount = reviews.length
MutSetReviewCountKeepEcho(parsed, n) ==
  [parsed EXCEPT !.reviewCount = IF parsed.echo.has THEN parsed.echo.v ELSE n]

setReviewCount(parsed, n) == [parsed EXCEPT !.reviewCount = n]

\* extractInsights from the resolution of its fetch on: reply is the
\* collaborator's answer, n is reviews.length
insightsFromReply(v, reply, n) ==
  IF reply.net = "throw" THEN Err("fetch failed", NoInsights)
  ELSE IF ~reply.ok THEN Err(LLM(v) \o " API error: Too Many Requests", NoInsights)
  ELSE IF reply.content = "empty" THEN Err("No content returned from " \o LLM(v), NoInsights)
  ELSE IF reply.content \in {"garbage", "null", "primitive"}
       THEN Err(ParseFailure, NoInsights)
  ELSE LET parsed == [kind |-> reply.content, reviewCount |-> 0,
                      lists |-> reply.lists, echo |-> reply.reviewCount]
           set == setReviewCount(parsed, n)
       IN  Ok([kind |-> set.kind, reviewCount |-> set.reviewCount, lists |-> set.lists])

\* ---------------------------------------------------- Content Generator
Falsy == {"", Undefined}

\* formData.preferredCTA[0]
firstCTA(formData) ==
  IF Len(formData.preferredCTA.a) > 0 THEN formData.preferredCTA.a[1] ELSE Undefined

MutCtaNoDefault(formData) == firstCTA(formData)

\* const cta = formData.preferredCTA[0] || "Learn more"
ctaOf(formData) ==
  IF firstCTA(formData) \in Falsy THEN DefaultCTA ELSE firstCTA(formData)

\* generateContent up to its fetch: the credential check, then the reads
\* of formData and insights that build the prompt, in source order
contentPrefix(v, env, formData, insights) ==
  IF LLMKey(v) \notin env THEN Err(NotSet(LLMKey(v)), 0)
  ELSE IF formData.brandTone.k = "undefined" THEN Err(JoinOfUndefined, 0)
  ELSE IF formData.preferredCTA.k = "undefined"
       THEN Err("Cannot read properties of undefined (reading '0')", 0)
  ELSE IF \E f \in {"advertisingPlatform", "marketingGoal", "businessType",
                    "targetAudience"} : formData[f].k = "undefined"
       THEN Err(JoinOfUndefined, 0)
  ELSE IF insights.lists = "badtype"
       THEN Err("insights.keyBenefits?.join is not a function", 0)
  ELSE Ok(0)

MutMarketingCopyCtasOverwritten(mc, c) == [mc EXCEPT !.ctas = [i \in DOMAIN @ |-> c]]

\* outputs.marketingCopy is returned as it was parsed
parsedMarketingCopy(mc, c) == mc

MutOverwriteCtaSkipped(sec, c) == sec

\* if (outputs.x) { outputs.x.cta = cta }
overwriteCta(sec, c) == IF sec.k = "object" THEN [sec EXCEPT !.cta = c] ELSE sec

MutOutputsDefaultOnGarbage(v, reply, formData) ==
  IF reply.net = "throw" THEN Err("fetch failed", NoOutputs)
  ELSE IF ~reply.ok THEN Err(LLM(v) \o " API error: Too Many Requests", NoOutputs)
  ELSE IF reply.content = "empty" THEN Err("No content returned from " \o LLM(v), NoOutputs)
  ELSE IF reply.content = "null" THEN Err(ParseFailure, NoOutputs)
  ELSE IF reply.content = "garbage"
       THEN Ok([kind |-> "object", json |-> NoSec, imageAd |-> NoSec,
                marketingCopy |-> NoMC])
  ELSE IF reply.content = "primitive"
       THEN Ok([kind |-> "primitive", json |-> NoSec, imageAd |-> NoSec,
                marketingCopy |-> NoMC])
  ELSE IF reply.json.k = "primitive" \/ reply.imageAd.k = "primitive"
       THEN Err(ParseFailure, NoOutputs)
  ELSE Ok([kind |-> "object",
           json |-> overwriteCta(reply.json, ctaOf(formData)),
           imageAd |-> overwriteCta(reply.imageAd, ctaOf(formData)),
           marketingCopy |-> parsedMarketingCopy(reply.marketingCopy, ctaOf(formData))])

\* generateContent from the resolution of its fetch on
outputsFromReply(v, reply, formData) ==
  IF reply.net = "throw" THEN Err("fetch failed", NoOutputs)
  ELSE IF ~reply.ok THEN Err(LLM(v) \o " API error: Too Many Requests", NoOutputs)
  ELSE IF reply.content = "empty" THEN Err("No content returned from " \o LLM(v), NoOutputs)
  ELSE IF reply.content \in {"garbage", "null"} THEN Err(ParseFailure, NoOutputs)
  ELSE IF reply.content = "primitive"
       THEN Ok([kind |-> "primitive", json |-> NoSec, imageAd |-> NoSec,
                marketingCopy |-> NoMC])
  \* assigning a property of a truthy primitive throws inside the try
  ELSE IF reply.json.k = "primitive" \/ reply.imageAd.k = "primitive"
       THEN Err(ParseFailure, NoOutputs)
  ELSE Ok([kind |-> "object",
           json |-> overwriteCta(reply.json, ctaOf(formData)),
           imageAd |-> overwriteCta(reply.imageAd, ctaOf(formData)),
           marketingCopy |-> parsedMarketingCopy(reply.marketingCopy, ctaOf(formData))])

\* ------------------------------------------------------ Image Synthesizer
MutImageFromReplyNoContentTypeCheck(reply) ==
  IF reply.kind = "throw" THEN Err("fetch failed", "")
  ELSE IF reply.kind = "loading" THEN Err("Model is loading", "")
  ELSE IF reply.kind \in {"image", "jsonError", "estimated", "text"}
       THEN Ok("data:" \o reply.contentType \o ";base64," \o reply.payload)
  ELSE Err(reply.error, "")

\* getMoodFromBrandTone: whether tone.toLowerCase() includes the keyword,
\* for the tones the model uses
Mentions(tone, keyword) ==
  \/ tone = "Professional" /\ keyword = "professional"
  \/ tone = "Friendly" /\ keyword = "friendly"
  \/ tone = "Bold" /\ keyword = "bold"
  \/ tone = "Premium" /\ keyword = "premium"

\* formData.brandTone.join(", ") || "Professional", as the list of its parts
joinedTone(tones) == IF tones = <<>> THEN <<"Professional">> ELSE tones

\* toneLower.includes(keyword) on the joined string
includes(tones, keyword) == \E i \in 1..Len(tones) : Mentions(tones[i], keyword)

getMoodFromBrandTone(tones) ==
  IF includes(tones, "professional") THEN "calm, confident"
  ELSE IF includes(tones, "friendly") THEN "warm, welcoming"
  ELSE IF includes(tones, "bold") THEN "energetic, modern"
  ELSE IF includes(tones, "premium") THEN "elegant, refined"
  ELSE "calm, confident"

\* one candidate's answer: Ok(data reference) or Err(lastError)
imageFromReply(reply) ==
  IF reply.kind = "throw" THEN Err("fetch failed", "")
  ELSE IF reply.kind = "loading" THEN Err("Model is loading", "")
  ELSE IF reply.kind = "image"
       THEN Ok("data:" \o reply.contentType \o ";base64," \o reply.payload)
  \* "jsonError", "estimated", "text", "httpError": the reply's error text
  ELSE Err(reply.error, "")

\* ------------------------------------------------------------- Job Store
EmptyQueue == [id \in {} |-> 0]

MutPutAlone(q, id, record) == id :> record

MutPutLatest(q, id, record) ==
  LET ids == DOMAIN q \cup {id}
      latest == CHOOSE x \in ids :
                  \A y \in ids : y[1] < x[1] \/ (y[1] = x[1] /\ y[2] <= x[2])
  IN  (latest :> record) @@ q

\* processQueue.set(jobId, record)
put(q, id, record) == (id :> record) @@ q

\* processQueue.set(jobId, { formData, status: "processing", createdAt: Date.now() })
processingRecord(formData, t) ==
  [formData |-> formData, status |-> "processing", createdAt |-> t]

MutCompletedRecordNoInsights(q, id, formData, insights, outputs, t) ==
  put(q, id, [formData |-> formData, status |-> "completed", outputs |-> outputs,
              createdAt |-> IF id \in DOMAIN q /\ q[id].createdAt # 0
                            THEN q[id].createdAt ELSE t])

MutStoreCompletedNewTimestamp(q, id, formData, insights, outputs, t) ==
  put(q, id, [formData |-> formData, status |-> "completed",
              insights |-> insights, outputs |-> outputs, createdAt |-> t + 1])

\* processQueue.set(jobId, { formData, status: "completed", insights, outputs,
\*                           createdAt: processQueue.get(jobId)?.createdAt || Date.now() })
storeCompleted(q, id, formData, insights, outputs, t) ==
  put(q, id, [formData |-> formData, status |-> "completed",
              insights |-> insights, outputs |-> outputs,
              createdAt |-> IF id \in DOMAIN q /\ q[id].createdAt # 0
                            THEN q[id].createdAt ELSE t])

MutCatchErrorKeepsStatus(q, id, msg) ==
  put(q, id, ("error" :> msg) @@ (IF id \in DOMAIN q THEN q[id] ELSE <<>>))

MutCatchErrorNoMessage(q, id, msg) ==
  put(q, id, ("status" :> "error") @@ (IF id \in DOMAIN q THEN q[id] ELSE <<>>))

\* processQueue.set(jobId, { ...processQueue.get(jobId), status: "error", error: message })
catchError(q, id, msg) ==
  put(q, id, ("status" :> "error") @@ ("error" :> msg)
               @@ (IF id \in DOMAIN q THEN q[id] ELSE <<>>))

\* --------------------------------------------------------------- state
VARIABLES
  variant,      \* the build: "link" (route.ts) or "manual" (part_002)
  env,          \* the credentials configured in process.env
  profile,      \* the workload: which requests and replies the environment offers
  now,          \* Date.now()
  processQueue, \* the Job Store: job id -> record
  pc,           \* per request: where its handler is suspended
  job,          \* per request: its jobId
  loc,          \* per request: the locals of processJob and of the stage in progress
  run,          \* per request: the stages started and finished so far
  resp,         \* per request: the response of POST
  pollResp,     \* the response of the latest GET
  normIn,       \* the input given to the review normalizer (SpecNorm)
  normOut,      \* its output
  page          \* the results page of one browser (SpecClient)

vars == <<variant, env, profile, now, processQueue, pc, job, loc, run, resp,
          pollResp, normIn, normOut, page>>

AllReqs == 1..MaxReqs
Reqs == IF profile \in {"concurrent", "ids", "client"} THEN AllReqs ELSE {1}
\* the workloads with the full range of bodies and collaborator replies
Rich == profile = "single"

NoJob == <<0, 0>>
NoLocals == [formData |-> Body("null", NoStr, NoStr, NoArr, NoArr, NoArr),
             placeId |-> <<>>, reviews |-> <<>>,
             insights |-> NoInsights, outputs |-> NoOutputs,
             model |-> 0, lastError |-> ""]
\* one request to a collaborator: arg is the place token or id asked for,
\* n the number of reviews sent or the index of the candidate image model
Call(api, arg, n) == [api |-> api, arg |-> arg, n |-> n]
NoFetch == [has |-> FALSE, reviews |-> <<>>]
\* body: how request.json() read the body; sent: the number of reviews in
\* the insight request; extracted: what extractPlaceId returned; calls:
\* the requests made to collaborators, in order; candidates: the place
\* ids of the text search response; fetched: the review texts of the place
\* details response; returned: the review texts fetchReviews returned;
\* llm: what the text-generation service answered, call by call; images:
\* what the candidate image models answered
NoRun == [started |-> <<>>, finished |-> <<>>, body |-> "none", sent |-> 0,
          extracted |-> NoMatch, calls |-> <<>>, candidates |-> <<>>,
          fetched |-> NoFetch, returned |-> NoFetch, llm |-> <<>>, images |-> <<>>]
NoResp == [code |-> 0]
NoNorm == [kind |-> "none", text |-> <<>>, list |-> <<>>]
\* the results page before it is opened: jobData is null, loading is true;
\* fetches and timers count the polls in flight and the timeouts pending,
\* outcomes lists what each poll so far came back with
NoData == [status |-> "none"]
NoPage == [open |-> FALSE, from |-> "none", jobId |-> <<0, 0>>, jobData |-> NoData,
           loading |-> TRUE, fetches |-> 0, timers |-> 0, outcomes |-> <<>>]

NoNormOut == [done |-> FALSE, out |-> <<>>]

Keys(v) ==
  IF v = "link" THEN {"GOOGLE_PLACES_API_KEY", "GROQ_API_KEY", "HUGGINGFACE_API_KEY"}
  ELSE {"OPENAI_API_KEY"}

InitWith(p) ==
  /\ variant \in {"link", "manual"}
  /\ env \in SUBSET Keys(variant)
  /\ profile = p
  /\ now = 0
  /\ processQueue = EmptyQueue
  /\ pc = [r \in AllReqs |-> "idle"]
  /\ job = [r \in AllReqs |-> NoJob]
  /\ loc = [r \in AllReqs |-> NoLocals]
  /\ run = [r \in AllReqs |-> NoRun]
  /\ resp = [r \in AllReqs |-> NoResp]
  /\ pollResp = NoResp
  /\ normIn = NoNorm
  /\ normOut = NoNormOut
  /\ page = NoPage

Init == InitWith("concurrent")

InitJob == InitWith("single")

\* ------------------------------------------------- what the environment offers
\* Maps links, as token sequences
DirectLink == <<"maps", "?", "place_id", "=", "ChIJabc123", "&", "hl">>
LongIdLink == <<"maps", "/", "place_id", "/", "GhIJN1t_tDeuEmsRUsoyG83frY4">>
NameLink   == <<"maps", "/", "place", "/", "Cafe", "/", "@", "52">>
CidLink    == <<"maps", "?", "cid", "=", "1234">>
BadLink    == <<"maps", "?", "q", "=", "cafe">>

\* review texts, as character sequences
ThreeLines == <<"a", "\n", "b", "\n", "c">>
FourLines  == <<"a", "\n", " ", "b", "\n", "a", "\n", "c", "\n", "d">>
TwoLines   == <<"a", "\n", "a", " ", "\n", "b">>
BlankLines == <<" ", "\n", " ">>
\* reviews that differ in letter case only, and an empty one
CaseLines  == <<"Great service!", "\n", "great service!", "\n">>
CaseReviews == <<<<"Great service!">>, <<"great service!">>, <<>>>>

Selected == Arr(<<"Restaurant">>)
Friendly == Arr(<<"Friendly", "Bold">>)
BookNow  == Arr(<<"Book now">>)

\* the parts the Maps links of SpecLinks are put together from
LinkParts ==
  {<<"?", "place_id", "=", "ChIJabc123">>, <<"&", "place_id", "=">>,
   <<"?", "cid", "=", "1234">>, <<"&", "cid", "=", "1234">>, <<"cid", "=", "77">>,
   <<"/", "place", "/", "Cafe">>, <<"/", "place_id", "/", "ChIJxyz789">>,
   <<"/", "@", "52">>}

RECURSIVE Concat(_)
Concat(parts) == IF parts = <<>> THEN <<>> ELSE Head(parts) \o Concat(Tail(parts))

LinkInputs == {<<"maps">> \o Concat(parts) : parts \in SeqsUpTo(LinkParts, MaxParts)}

NoSelection == Arr(<<>>)

Bodies ==
  LET bad == Body("invalid", NoStr, NoStr, NoArr, NoArr, NoArr)
      L(link, lists, tone, ctas) == Body("object", link, NoStr, lists, tone, ctas)
      M(text, lists, tone, ctas) == Body("object", NoStr, text, lists, tone, ctas)
  IN
  IF profile = "links" THEN {L(Str(url), Selected, Friendly, BookNow) : url \in LinkInputs}
  ELSE IF profile = "images"
  THEN {L(Str(DirectLink), Selected, Friendly, BookNow),
        L(Str(NameLink), Selected, Friendly, BookNow)}
  ELSE IF ~Rich THEN
    IF variant = "link"
    THEN {bad, L(NoStr, Selected, Friendly, BookNow),
          L(Str(NameLink), Selected, Friendly, BookNow)}
    ELSE {bad, M(Str(TwoLines), Selected, Friendly, BookNow),
          M(Str(ThreeLines), Selected, Friendly, BookNow)}
  ELSE
    LET ctaLists == {Arr(<<>>), Arr(<<"">>), BookNow, Arr(<<"Call us", "Book now">>)}
        broken == {<<NoArr, Friendly, BookNow>>, <<Selected, NoArr, BookNow>>,
                   <<Selected, Friendly, NoArr>>}
        null == Body("null", NoStr, NoStr, NoArr, NoArr, NoArr)
    IN
    IF variant = "link"
    THEN {bad, null}
         \cup {L(link, Selected, Friendly, BookNow) :
                 link \in {NoStr, NumStr, Str(BadLink), Str(CidLink), Str(NameLink),
                           Str(LongIdLink)}}
         \cup {L(Str(DirectLink), Selected, Friendly, c) : c \in ctaLists}
         \cup {L(Str(DirectLink), NoSelection, NoSelection, NoSelection)}
         \cup {L(Str(DirectLink), b[1], b[2], b[3]) : b \in broken}
    ELSE {bad, null}
         \cup {M(text, Selected, Friendly, BookNow) :
                 text \in {NoStr, NumStr, Str(<<>>), Str(BlankLines), Str(TwoLines),
                           Str(FourLines), Str(CaseLines)}}
         \cup {M(Str(ThreeLines), Selected, Friendly, c) : c \in ctaLists}
         \cup {M(Str(ThreeLines), NoSelection, NoSelection, NoSelection)}
         \cup {M(Str(ThreeLines), b[1], b[2], b[3]) : b \in broken}

\* answers of the place text search
SearchReply(net, status, results) == [net |-> net, status |-> status, results |-> results]
SearchReplies ==
  {SearchReply("ok", "OK", <<<<"ChIJabc123">>>>)}
  \cup (IF ~Rich THEN {}
        ELSE {SearchReply("ok", "ZERO_RESULTS", <<>>), SearchReply("throw", "", <<>>),
              SearchReply("ok", "OK", <<>>),
              SearchReply("ok", "OK", <<<<"ChIJxyz789">>, <<"ChIJabc123">>>>)})

\* answers of the place details lookup: reviews holds each review's text
DetailsReply(net, status, hasResult, reviews) ==
  [net |-> net, status |-> status, hasResult |-> hasResult, reviews |-> reviews]
\* a place with more reviews than fetchReviews keeps: the second has no
\* text, the third a blank one
ManyReviews ==
  [i \in 1..(ReviewSliceLimit + 2) |->
     IF i = 2 THEN <<>> ELSE IF i = 3 THEN <<" ">> ELSE <<ToString(i)>>]

\* a place with one review more than fetchReviews keeps, all different
FullReviews == [i \in 1..(ReviewSliceLimit + 1) |-> <<ToString(i)>>]

DetailsReplies ==
  {DetailsReply("ok", "OK", TRUE, <<<<"a">>, <<"b">>, <<"c">>>>)}
  \cup (IF ~Rich THEN {}
        ELSE {DetailsReply("ok", "OK", TRUE, <<<<"a">>, <<"b">>, <<" ", "a">>>>),
              DetailsReply("throw", "", FALSE, <<>>),
              DetailsReply("ok", "REQUEST_DENIED", FALSE, <<>>),
              DetailsReply("ok", "OK", FALSE, <<>>),
              DetailsReply("ok", "OK", TRUE, <<>>),
              DetailsReply("ok", "OK", TRUE, <<<<>>, <<" ">>>>),
              DetailsReply("ok", "OK", TRUE, ManyReviews),
              DetailsReply("ok", "OK", TRUE, CaseReviews),
              DetailsReply("ok", "OK", TRUE, FullReviews),
              DetailsReply("ok", "OK", TRUE,
                           <<<<"a">>, <<>>, <<"b", " ">>, <<"c">>, <<"a">>, <<"d">>>>)})

\* answers of the text-generation service to the insight request:
\* content is what JSON.parse makes of the returned text, reviewCount the
\* count the service reports, lists the state of the five array fields
Echo(has, v) == [has |-> has, v |-> v]
InsightReply(net, ok, content, echo, lists) ==
  [net |-> net, ok |-> ok, content |-> content, reviewCount |-> echo, lists |-> lists]
InsightReplies ==
  {InsightReply("ok", TRUE, "object", Echo(TRUE, 99), "arrays"),
   InsightReply("ok", FALSE, "empty", Echo(FALSE, 0), "missing")}
  \cup (IF ~Rich THEN {}
        ELSE {InsightReply("throw", FALSE, "empty", Echo(FALSE, 0), "missing")}
             \cup {InsightReply("ok", TRUE, c, Echo(FALSE, 0), "missing") :
                     c \in {"empty", "garbage", "null", "primitive"}}
             \cup {InsightReply("ok", TRUE, c, e, l) :
                     c \in {"object", "array"},
                     e \in {Echo(FALSE, 0), Echo(TRUE, 0), Echo(TRUE, 3)},
                     l \in {"arrays", "missing", "badtype"}})

\* answers of the text-generation service to the content request
ContentReply(net, ok, content, json, imageAd, mc) ==
  [net |-> net, ok |-> ok, content |-> content, json |-> json, imageAd |-> imageAd,
   marketingCopy |-> mc]
Bundle == MC("bundle", <<"Buy now", "Reserve today", "See the menu">>)
ContentReplies ==
  {ContentReply("ok", TRUE, "object", Sec("object", "Buy now"), Sec("object", "Buy now"),
                Bundle)}
  \cup (IF ~Rich THEN {}
        ELSE {ContentReply("ok", TRUE, "garbage", NoSec, NoSec, NoMC),
              ContentReply("throw", FALSE, "empty", NoSec, NoSec, NoMC),
              ContentReply("ok", FALSE, "empty", NoSec, NoSec, NoMC)}
             \cup {ContentReply("ok", TRUE, c, NoSec, NoSec, NoMC) :
                     c \in {"empty", "null", "primitive"}}
             \cup {ContentReply("ok", TRUE, "object", j, i, m) :
                     j \in {NoSec, Sec("primitive", Undefined), Sec("object", "Buy now"),
                            Sec("object", "Book now"), Sec("object", Undefined)},
                     i \in {NoSec, Sec("primitive", Undefined), Sec("object", "Buy now")},
                     m \in {NoMC, MC("string", <<>>), Bundle}})

\* answers of one candidate image model
ImageReply(kind, contentType, payload, error) ==
  [kind |-> kind, contentType |-> contentType, payload |-> payload, error |-> error]
ImageReplies ==
  {ImageReply("image", "image/png", "iVBOR", "")}
  \cup (IF profile # "client" THEN {ImageReply("loading", "", "", "")} ELSE {})
  \cup (IF Rich \/ profile = "images"
        THEN {ImageReply("throw", "", "", ""),
              ImageReply("httpError", "", "", "Invalid credentials")}
        ELSE {})
  \cup (IF profile = "images"
        THEN {ImageReply("image", "image/jpeg", "9j4AA", ""),
              ImageReply("jsonError", "application/json", "", "Model too busy"),
              ImageReply("estimated", "application/json", "", "Model is currently loading"),
              ImageReply("text", "text/html", "", "<html>Bad gateway</html>"),
              ImageReply("text", "text/plain", "", "")}
        ELSE {})

MutPlaceFromSearchLast(reply) ==
  IF reply.net = "throw" THEN Err("Failed to search for place: fetch failed", <<>>)
  ELSE IF reply.status = "OK" /\ Len(reply.results) > 0
       THEN Ok(reply.results[Len(reply.results)])
  ELSE Err("Failed to search for place: Could not find place: " \o reply.status, <<>>)

\* fetchReviews from the resolution of the text search on
placeFromSearch(reply) ==
  IF reply.net = "throw" THEN Err("Failed to search for place: fetch failed", <<>>)
  ELSE IF reply.status = "OK" /\ Len(reply.results) > 0 THEN Ok(reply.results[1])
  ELSE Err("Failed to search for place: Could not find place: " \o reply.status, <<>>)

\* fetchReviews from the resolution of the details lookup on
reviewsFromDetails(reply) ==
  IF reply.net = "throw" THEN Err("Failed to fetch place details: fetch failed", <<>>)
  ELSE IF reply.status # "OK" THEN Err("Google Places API error: " \o reply.status, <<>>)
  ELSE IF ~reply.hasResult THEN Err("Place not found", <<>>)
  ELSE IF Len(reply.reviews) = 0 THEN Err("No reviews found for this place", <<>>)
  ELSE IF Len(filterValidReviews(reply.reviews)) = 0 THEN Err("No valid reviews found", <<>>)
  ELSE Ok(filterValidReviews(reply.reviews))

\* ------------------------------------------------------ Job Orchestrator
\* jobId = `job_${Date.now()}_${Math.random()...}`: the random suffixes a
\* submission at time t can draw.  In the workload "ids" a draw is any of
\* RandomSuffixes, so two submissions of one millisecond may draw the same
\* suffix.  The other workloads take two draws within one millisecond to
\* differ; identifiers are opaque, so the least free suffix stands for
\* any of them.
MutRandomDrawsRepeat(t) == {1}

RandomSuffixes == {1, 2}

RandomDraws(t) ==
  LET free == {x \in 1..(Cardinality(DOMAIN processQueue) + 1) :
                 <<t, x>> \notin DOMAIN processQueue}
  IN  IF profile = "ids" THEN RandomSuffixes
      ELSE {CHOOSE x \in free : \A y \in free : x <= y}

Finished(rn, stage) == [rn EXCEPT !.finished = Append(@, stage)]

\* the answer of the text-generation service as the stage sees it
Answered(rn, reply) ==
  [rn EXCEPT !.llm = Append(@, [net |-> reply.net, ok |-> reply.ok,
                                content |-> reply.content])]

\* a fetch(...) is issued
Called(rn, api, arg, n) == [rn EXCEPT !.calls = Append(@, Call(api, arg, n))]

\* the catch block of processJob: the handler then returns to POST
Throw(r, id, q, msg, rn) ==
  /\ processQueue' = catchError(q, id, msg)
  /\ pc' = [pc EXCEPT ![r] = "returning"]
  /\ loc' = [loc EXCEPT ![r] = NoLocals]
  /\ run' = [run EXCEPT ![r] = rn]

\* the handler suspends at an await
Await(r, q, where, locals, rn) ==
  /\ processQueue' = q
  /\ pc' = [pc EXCEPT ![r] = where]
  /\ loc' = [loc EXCEPT ![r] = locals]
  /\ run' = [run EXCEPT ![r] = rn]

\* "Store results": the handler then returns to POST
Complete(r, id, q, locals, rn) ==
  /\ processQueue' = storeCompleted(q, id, locals.formData, locals.insights,
                                    locals.outputs, now)
  /\ pc' = [pc EXCEPT ![r] = "returning"]
  /\ loc' = [loc EXCEPT ![r] = NoLocals]
  /\ run' = [run EXCEPT ![r] = rn]

MutStartInsightsNoKeyCheck(r, id, q, locals, rn) ==
  LET rn1 == [rn EXCEPT !.started = Append(@, "extractInsights")]
  IN  Await(r, q, "insights", locals,
            Called([rn1 EXCEPT !.sent = Len(locals.reviews)], "insights", <<>>,
                   Len(locals.reviews)))

\* extractInsights up to its fetch
StartInsights(r, id, q, locals, rn) ==
  LET rn1 == [rn EXCEPT !.started = Append(@, "extractInsights")]
  IN  IF LLMKey(variant) \notin env
      THEN Throw(r, id, q, NotSet(LLMKey(variant)), rn1)
      ELSE Await(r, q, "insights", locals,
                 Called([rn1 EXCEPT !.sent = Len(locals.reviews)], "insights", <<>>,
                        Len(locals.reviews)))

\* generateContent up to its fetch
StartContent(r, id, q, locals, rn) ==
  LET rn1 == [rn EXCEPT !.started = Append(@, "generateContent")]
      pre == contentPrefix(variant, env, locals.formData, locals.insights)
  IN  IF ~pre.ok THEN Throw(r, id, q, pre.msg, rn1)
      ELSE Await(r, q, "content", locals, Called(rn1, "content", <<>>, 0))

MutNeedsImageNever(outputs) == FALSE

MutNeedsImageAlways(outputs) == TRUE

\* if (outputs.imageAd)
needsImage(outputs) == outputs.imageAd.k = "object"

\* processJob after generateContent has returned
AfterContent(r, id, q, locals, rn) ==
  IF variant = "link" /\ needsImage(locals.outputs)
  THEN LET rn1 == [rn EXCEPT !.started = Append(@, "generateAdImage")]
       IN  IF "HUGGINGFACE_API_KEY" \notin env
           THEN Throw(r, id, q, NotSet("HUGGINGFACE_API_KEY"), rn1)
           ELSE Await(r, q, "image", [locals EXCEPT !.model = 1, !.lastError = ""],
                      Called(rn1, "image", <<>>, 1))
  ELSE Complete(r, id, q, locals, rn)

MutAfterReviewsNoMinimum(r, id, q, locals, rn) ==
  StartInsights(r, id, q, locals, Finished(rn, "preprocessReviews"))

MutAfterReviewsMinimumTwo(r, id, q, locals, rn) ==
  IF Len(locals.reviews) < 2
  THEN Throw(r, id, q, TooFewReviews, rn)
  ELSE StartInsights(r, id, q, locals, Finished(rn, "preprocessReviews"))

\* processJob after the reviews have been obtained
AfterReviews(r, id, q, locals, rn) ==
  IF Len(locals.reviews) < MinReviews
  THEN Throw(r, id, q, TooFewReviews, rn)
  ELSE StartInsights(r, id, q, locals, Finished(rn, "preprocessReviews"))

MutStartFetchAlwaysSearch(r, id, q, locals, rn) ==
  LET rn1 == [rn EXCEPT !.started = Append(@, "fetchReviews")]
  IN  IF "GOOGLE_PLACES_API_KEY" \notin env
      THEN Throw(r, id, q, NotSet("GOOGLE_PLACES_API_KEY"), rn1)
      ELSE Await(r, q, "textSearch", locals, Called(rn1, "textSearch", locals.placeId, 0))

\* fetchReviews up to its first fetch
StartFetch(r, id, q, locals, rn) ==
  LET rn1 == [rn EXCEPT !.started = Append(@, "fetchReviews")]
  IN  IF "GOOGLE_PLACES_API_KEY" \notin env
      THEN Throw(r, id, q, NotSet("GOOGLE_PLACES_API_KEY"), rn1)
      ELSE IF isValidPlaceId(locals.placeId)
           THEN Await(r, q, "details", locals, Called(rn1, "details", locals.placeId, 0))
           ELSE Await(r, q, "textSearch", locals,
                      Called(rn1, "textSearch", locals.placeId, 0))

\* processJob up to its first await
processJob(r, id, q, formData) ==
  LET locals == [NoLocals EXCEPT !.formData = formData]
      rn0 == [NoRun EXCEPT !.body = formData.json]
  IN
  IF variant = "link" THEN
    LET rn1 == [rn0 EXCEPT !.started = <<"extractPlaceId">>]
        url == formData.googleMapsLink
    IN  IF formData.json = "null"
        THEN Throw(r, id, q, "Cannot read properties of null (reading 'googleMapsLink')",
                   rn0)
        ELSE IF url.k = "undefined"
        THEN Throw(r, id, q, "Cannot read properties of undefined (reading 'match')", rn1)
        ELSE IF url.k = "number"
        THEN Throw(r, id, q, "url.match is not a function", rn1)
        ELSE IF ~extractPlaceId(url.s).found
        THEN Throw(r, id, q, InvalidLink, rn1)
        ELSE StartFetch(r, id, q, [locals EXCEPT !.placeId = extractPlaceId(url.s).id],
                        Finished([rn1 EXCEPT !.extracted = extractPlaceId(url.s)],
                                 "extractPlaceId"))
  ELSE
    LET text == formData.reviews
        rn1 == [rn0 EXCEPT !.started = <<"preprocessReviews">>]
    IN  IF formData.json = "null"
        THEN Throw(r, id, q, "Cannot read properties of null (reading 'reviews')", rn0)
        ELSE IF text.k = "undefined" \/ (text.k = "string" /\ text.s = <<>>)
        THEN Throw(r, id, q, "No reviews provided", rn0)
        ELSE IF text.k = "number"
        THEN Throw(r, id, q, "formData.reviews.trim is not a function", rn0)
        ELSE IF trim(text.s) = <<>>
        THEN Throw(r, id, q, "No reviews provided", rn0)
        ELSE AfterReviews(r, id, q,
                          [locals EXCEPT !.reviews = preprocessReviewsText(text.s)], rn1)

\* ---------------------------------------------------------------- actions
\* each client submits the questionnaire of its own business
BusinessName(r) ==
  IF r = 1 THEN "Cafe Uno" ELSE IF r = 2 THEN "Bar Due" ELSE "Shop " \o ToString(r)

Submitted(r, body) == [body EXCEPT !.businessName = BusinessName(r)]

\* Date.now() at a submission: the millisecond of the latest submission
\* before it, or a later one
Clock == IF now = 0 THEN {1} ELSE {now, now + 1}

MutBodyReadableAlways(body) == TRUE

\* const formData = await request.json(): it throws when the body is no JSON
bodyReadable(body) == body.json # "invalid"

\* export async function POST: the request arrives and its body is read;
\* the handler runs on to the first await of processJob
POST(r) ==
  /\ r \in Reqs
  /\ pc[r] = "idle"
  \* requests are numbered in the order of their arrival
  /\ \A s \in 1..(r - 1) : pc[s] # "idle"
  /\ \E body \in Bodies :
       IF ~bodyReadable(body)
       THEN /\ resp' = [resp EXCEPT ![r] =
                 [code |-> 500,
                  body |-> IF variant = "link"
                           THEN [error |-> "Failed to process questionnaire",
                                 message |-> "Unexpected token in JSON"]
                           ELSE [error |-> "Failed to process questionnaire"]]]
            /\ pc' = [pc EXCEPT ![r] = "done"]
            /\ run' = [run EXCEPT ![r].body = body.json]
            /\ UNCHANGED <<now, processQueue, job, loc>>
       ELSE \E t \in Clock : \E rnd \in RandomDraws(t) :
              LET id == <<t, rnd>>
                  formData == Submitted(r, body)
              IN  /\ now' = t
                  /\ job' = [job EXCEPT ![r] = id]
                  /\ processJob(r, id, put(processQueue, id, processingRecord(formData, t)),
                                formData)
                  /\ UNCHANGED resp
  /\ UNCHANGED <<page, variant, env, profile, pollResp, normIn, normOut>>

\* the text search of fetchReviews resolves
SearchResolved(r) ==
  /\ pc[r] = "textSearch"
  /\ \E reply \in SearchReplies :
       LET found == placeFromSearch(reply)
           seen == [run[r] EXCEPT !.candidates = reply.results]
       IN  IF ~found.ok
           THEN Throw(r, job[r], processQueue, found.msg, seen)
           ELSE Await(r, processQueue, "details", [loc[r] EXCEPT !.placeId = found.v],
                      Called(seen, "details", found.v, 0))
  /\ UNCHANGED <<page, variant, env, profile, now, job, resp, pollResp, normIn, normOut>>

\* the details lookup of fetchReviews resolves; processJob runs on through
\* preprocessReviews to the fetch of extractInsights
DetailsResolved(r) ==
  /\ pc[r] = "details"
  /\ \E reply \in DetailsReplies :
       LET got == reviewsFromDetails(reply)
           seen == IF reply.net = "ok" /\ reply.status = "OK" /\ reply.hasResult
                   THEN [run[r] EXCEPT !.fetched = [has |-> TRUE, reviews |-> reply.reviews]]
                   ELSE run[r]
           rn  == [Finished(seen, "fetchReviews") EXCEPT
                     !.started = Append(@, "preprocessReviews")]
       IN  IF ~got.ok
           THEN Throw(r, job[r], processQueue, got.msg, seen)
           ELSE AfterReviews(r, job[r], processQueue,
                             [loc[r] EXCEPT !.reviews = preprocessReviews(got.v)],
                             [rn EXCEPT !.returned = [has |-> TRUE, reviews |-> got.v]])
  /\ UNCHANGED <<page, variant, env, profile, now, job, resp, pollResp, normIn, normOut>>

\* the fetch of extractInsights resolves; processJob runs on to the fetch
\* of generateContent
InsightsResolved(r) ==
  /\ pc[r] = "insights"
  /\ \E reply \in InsightReplies :
       LET got == insightsFromReply(variant, reply, Len(loc[r].reviews))
           rn == Answered(run[r], reply)
       IN  IF ~got.ok
           THEN Throw(r, job[r], processQueue, got.msg, rn)
           ELSE StartContent(r, job[r], processQueue, [loc[r] EXCEPT !.insights = got.v],
                             Finished(rn, "extractInsights"))
  /\ UNCHANGED <<page, variant, env, profile, now, job, resp, pollResp, normIn, normOut>>

\* the fetch of generateContent resolves; processJob stores the results or
\* runs on to the first fetch of generateAdImage
ContentResolved(r) ==
  /\ pc[r] = "content"
  /\ \E reply \in ContentReplies :
       LET got == outputsFromReply(variant, reply, loc[r].formData)
           rn == Answered(run[r], reply)
       IN  IF ~got.ok
           THEN Throw(r, job[r], processQueue, got.msg, rn)
           ELSE AfterContent(r, job[r], processQueue, [loc[r] EXCEPT !.outputs = got.v],
                             Finished(rn, "generateContent"))
  /\ UNCHANGED <<page, variant, env, profile, now, job, resp, pollResp, normIn, normOut>>

MutImageResolvedNoFallback(r) ==
  /\ pc[r] = "image"
  /\ \E reply \in ImageReplies :
       LET got == imageFromReply(reply)
           rn == [run[r] EXCEPT !.images = Append(@, reply)]
       IN  IF got.ok
           THEN Complete(r, job[r], processQueue,
                         [loc[r] EXCEPT !.outputs.imageAd.imageUrl = got.v],
                         Finished(rn, "generateAdImage"))
           ELSE Throw(r, job[r], processQueue, ImageFailure(got.msg), rn)
  /\ UNCHANGED <<page, variant, env, profile, now, job, resp, pollResp, normIn, normOut>>

MutImageResolvedRetry(r) ==
  /\ pc[r] = "image"
  /\ \E reply \in ImageReplies :
       LET got == imageFromReply(reply)
           rn == [run[r] EXCEPT !.images = Append(@, reply)]
       IN  IF got.ok
           THEN Complete(r, job[r], processQueue,
                         [loc[r] EXCEPT !.outputs.imageAd.imageUrl = got.v],
                         Finished(rn, "generateAdImage"))
           ELSE IF Len(rn.images) < NumModels
           THEN Await(r, processQueue, "image", [loc[r] EXCEPT !.lastError = got.msg],
                      Called(rn, "image", <<>>, loc[r].model))
           ELSE Throw(r, job[r], processQueue, ImageFailure(got.msg), rn)
  /\ UNCHANGED <<page, variant, env, profile, now, job, resp, pollResp, normIn, normOut>>

\* the fetch to candidate model loc[r].model resolves
ImageResolved(r) ==
  /\ pc[r] = "image"
  /\ \E reply \in ImageReplies :
       LET got == imageFromReply(reply)
           rn == [run[r] EXCEPT !.images = Append(@, reply)]
       IN  IF got.ok
           THEN Complete(r, job[r], processQueue,
                         [loc[r] EXCEPT !.outputs.imageAd.imageUrl = got.v],
                         Finished(rn, "generateAdImage"))
           ELSE IF loc[r].model < NumModels
           THEN Await(r, processQueue, "image",
                      [loc[r] EXCEPT !.model = @ + 1, !.lastError = got.msg],
                      Called(rn, "image", <<>>, loc[r].model + 1))
           ELSE Throw(r, job[r], processQueue, ImageFailure(got.msg), rn)
  /\ UNCHANGED <<page, variant, env, profile, now, job, resp, pollResp, normIn, normOut>>

\* POST after `await processJob(jobId, formData)`: the response
Respond(r) ==
  /\ pc[r] = "returning"
  /\ resp' = [resp EXCEPT ![r] =
        [code |-> 200,
         body |-> IF variant = "link"
                  THEN ("id" :> job[r]) @@ processQueue[job[r]]
                  ELSE processQueue[job[r]]]]
  /\ pc' = [pc EXCEPT ![r] = "done"]
  /\ UNCHANGED <<page, variant, env, profile, now, processQueue, job, loc, run, pollResp,
                 normIn, normOut>>

\* export async function GET: a poll with a known, an unknown or no id;
\* pollResp records the id asked for next to the response
UnknownId == <<0, 1>>
MissingId == <<0, 0>>
MutGetResponseNoLookup(id) ==
  IF id = MissingId THEN [code |-> 400, body |-> [error |-> "Missing id parameter"]]
  ELSE [code |-> 200,
        body |-> IF id \in DOMAIN processQueue THEN processQueue[id] ELSE <<>>]

MutGetResponseGenericError(id) ==
  IF id = MissingId THEN [code |-> 400, body |-> [error |-> "Missing id parameter"]]
  ELSE IF id \notin DOMAIN processQueue
       THEN [code |-> 404, body |-> [error |-> "Job not found"]]
  ELSE [code |-> 200,
        body |-> IF processQueue[id].status = "error"
                 THEN ("error" :> "Processing failed") @@ processQueue[id]
                 ELSE processQueue[id]]

getResponse(id) ==
  IF id = MissingId THEN [code |-> 400, body |-> [error |-> "Missing id parameter"]]
  ELSE IF id \notin DOMAIN processQueue
       THEN [code |-> 404, body |-> [error |-> "Job not found"]]
  ELSE [code |-> 200, body |-> processQueue[id]]

MutGetConsumesRecord ==
  /\ \E id \in DOMAIN processQueue \cup {UnknownId, MissingId} :
       /\ pollResp' = ("id" :> id) @@ getResponse(id)
       /\ processQueue' = [k \in DOMAIN processQueue \ {id} |-> processQueue[k]]
  /\ UNCHANGED <<page, variant, env, profile, now, pc, job, loc, run, resp, normIn, normOut>>

GET ==
  /\ \E id \in DOMAIN processQueue \cup {UnknownId, MissingId} :
       pollResp' = ("id" :> id) @@ getResponse(id)
  /\ UNCHANGED <<page, variant, env, profile, now, processQueue, pc, job, loc, run, resp,
                 normIn, normOut>>

Next ==
  \/ \E r \in AllReqs : POST(r)
  \/ \E r \in AllReqs : SearchResolved(r)
  \/ \E r \in AllReqs : DetailsResolved(r)
  \/ \E r \in AllReqs : InsightsResolved(r)
  \/ \E r \in AllReqs : ContentResolved(r)
  \/ \E r \in AllReqs : ImageResolved(r)
  \/ \E r \in AllReqs : Respond(r)
  \/ GET

\* ------------------------------------------------------ the results page
\* router.push(`/results?id=${result.id}`): the id the form navigates with
\* after the submission of r was answered; a response without id gives the
\* text "undefined", which is the id of no job
idFromResponse(r) ==
  IF "id" \in DOMAIN resp[r].body THEN resp[r].body.id ELSE UnknownId

\* useEffect: if (!jobId) return; fetchResults()
startPolling(id) == IF id = MissingId THEN 0 ELSE 1

MutOpenFromFormEarly(r) ==
  /\ profile = "client"
  /\ ~page.open
  /\ job[r] # NoJob /\ job[r] \in DOMAIN processQueue
  /\ page' = [page EXCEPT !.open = TRUE, !.from = "form", !.jobId = job[r],
                          !.fetches = startPolling(job[r])]
  /\ UNCHANGED <<variant, env, profile, now, processQueue, pc, job, loc, run, resp,
                 pollResp, normIn, normOut>>

\* the page is opened by the form after a successful submission
OpenFromForm(r) ==
  /\ profile = "client"
  /\ ~page.open
  /\ pc[r] = "done" /\ resp[r].code = 200
  /\ page' = [page EXCEPT !.open = TRUE, !.from = "form", !.jobId = idFromResponse(r),
                          !.fetches = startPolling(idFromResponse(r))]
  /\ UNCHANGED <<variant, env, profile, now, processQueue, pc, job, loc, run, resp,
                 pollResp, normIn, normOut>>

\* the page is opened at an address with the id of some job, with an id
\* of no job, or without id
OpenFromAddress ==
  /\ profile = "client"
  /\ ~page.open
  /\ \E id \in DOMAIN processQueue \cup {UnknownId, MissingId} :
       page' = [page EXCEPT !.open = TRUE, !.from = "address", !.jobId = id,
                            !.fetches = startPolling(id)]
  /\ UNCHANGED <<variant, env, profile, now, processQueue, pc, job, loc, run, resp,
                 pollResp, normIn, normOut>>

MutAfterPollAlwaysAgain(pg, net, answer) ==
  IF net = "throw" \/ answer.code # 200
  THEN [pg EXCEPT !.fetches = @ - 1, !.loading = FALSE,
                  !.outcomes = Append(@, "failed")]
  ELSE [pg EXCEPT !.fetches = @ - 1, !.jobData = answer.body, !.timers = @ + 1,
                  !.outcomes = Append(@, answer.body.status)]

MutAfterPollErrorView(pg, net, answer) ==
  IF net = "throw" \/ answer.code # 200
  THEN [pg EXCEPT !.fetches = @ - 1, !.loading = FALSE,
                  !.jobData = [status |-> "error", error |-> "Failed to fetch results"],
                  !.outcomes = Append(@, "failed")]
  ELSE IF answer.body.status = "processing"
  THEN [pg EXCEPT !.fetches = @ - 1, !.jobData = answer.body, !.timers = @ + 1,
                  !.outcomes = Append(@, "processing")]
  ELSE [pg EXCEPT !.fetches = @ - 1, !.jobData = answer.body, !.loading = FALSE,
                  !.outcomes = Append(@, answer.body.status)]

\* fetchResults after its fetch: net is "throw" when the fetch rejects,
\* answer is the response of GET otherwise
afterPoll(pg, net, answer) ==
  IF net = "throw" \/ answer.code # 200
  THEN [pg EXCEPT !.fetches = @ - 1, !.loading = FALSE,
                  !.outcomes = Append(@, "failed")]
  ELSE IF answer.body.status = "processing"
  THEN [pg EXCEPT !.fetches = @ - 1, !.jobData = answer.body, !.timers = @ + 1,
                  !.outcomes = Append(@, "processing")]
  ELSE [pg EXCEPT !.fetches = @ - 1, !.jobData = answer.body, !.loading = FALSE,
                  !.outcomes = Append(@, answer.body.status)]

\* a poll of the page is answered by GET, or fails on the network
PollAnswered ==
  /\ page.fetches > 0
  /\ \E net \in {"ok", "throw"} : page' = afterPoll(page, net, getResponse(page.jobId))
  /\ UNCHANGED <<variant, env, profile, now, processQueue, pc, job, loc, run, resp,
                 pollResp, normIn, normOut>>

\* setTimeout(fetchResults, 2000) fires
TimerFires ==
  /\ page.timers > 0
  /\ Len(page.outcomes) <= MaxPolls
  /\ page' = [page EXCEPT !.timers = @ - 1, !.fetches = @ + 1]
  /\ UNCHANGED <<variant, env, profile, now, processQueue, pc, job, loc, run, resp,
                 pollResp, normIn, normOut>>

\* what the page renders
view(pg) ==
  IF pg.loading \/ pg.jobData = NoData \/ pg.jobData.status = "processing"
  THEN "processing"
  ELSE IF pg.jobData.status = "error" THEN "error"
  ELSE IF "outputs" \notin DOMAIN pg.jobData THEN "no outputs"
  ELSE "results"

InitClient ==
  /\ InitWith("client")
  /\ env = Keys(variant)

NextClient ==
  \/ \E r \in AllReqs : POST(r)
  \/ \E r \in AllReqs : SearchResolved(r)
  \/ \E r \in AllReqs : DetailsResolved(r)
  \/ \E r \in AllReqs : InsightsResolved(r)
  \/ \E r \in AllReqs : ContentResolved(r)
  \/ \E r \in AllReqs : ImageResolved(r)
  \/ \E r \in AllReqs : Respond(r)
  \/ \E r \in AllReqs : OpenFromForm(r)
  \/ OpenFromAddress
  \/ PollAnswered
  \/ TimerFires

SpecClient == InitClient /\ [][NextClient]_vars

\* ------------------------------------------- the Review Normalizer alone
TextChars == {"a", "A", "b", " ", "\n"}
\* the review texts of a details response: at most two characters each
ReviewTexts == SeqsUpTo({"a", "A", "b", " "}, 2)

NormInputs ==
  {[kind |-> "text", text |-> t, list |-> <<>>] : t \in SeqsUpTo(TextChars, MaxText)}
  \cup {[kind |-> "list", text |-> <<>>, list |-> l] : l \in SeqsUpTo(ReviewTexts, MaxList)}
  \cup {[kind |-> "text", text |-> CaseLines, list |-> <<>>],
        [kind |-> "list", text |-> <<>>, list |-> CaseReviews]}

InitNorm ==
  /\ variant = "manual"
  /\ env = {}
  /\ profile = "single"
  /\ now = 0
  /\ processQueue = EmptyQueue
  /\ pc = [r \in AllReqs |-> "idle"]
  /\ job = [r \in AllReqs |-> NoJob]
  /\ loc = [r \in AllReqs |-> NoLocals]
  /\ run = [r \in AllReqs |-> NoRun]
  /\ resp = [r \in AllReqs |-> NoResp]
  /\ pollResp = NoResp
  /\ normIn \in NormInputs
  /\ normOut = NoNormOut
  /\ page = NoPage

\* one call of preprocessReviews, in the form of the variant the input is for
Normalize ==
  /\ ~normOut.done
  /\ normOut' = [done |-> TRUE,
                 out |-> IF normIn.kind = "text"
                         THEN preprocessReviewsText(normIn.text)
                         ELSE preprocessReviews(normIn.list)]
  /\ UNCHANGED <<page, variant, env, profile, now, processQueue, pc, job, loc, run, resp,
                 pollResp, normIn>>

NextNorm == Normalize

\* the brand tones a client can send: the four options of the form and
\* one that is none of them
ToneOptions == {"Professional", "Friendly", "Bold", "Premium", "Playful"}

InitMood ==
  /\ variant = "link"
  /\ env = {}
  /\ profile = "single"
  /\ now = 0
  /\ processQueue = EmptyQueue
  /\ pc = [r \in AllReqs |-> "idle"]
  /\ job = [r \in AllReqs |-> NoJob]
  /\ loc = [r \in AllReqs |-> NoLocals]
  /\ run = [r \in AllReqs |-> NoRun]
  /\ resp = [r \in AllReqs |-> NoResp]
  /\ pollResp = NoResp
  /\ normIn \in {[kind |-> "tones", text |-> <<>>, list |-> t] :
                    t \in SeqsUpTo(ToneOptions, MaxTones)}
  /\ normOut = NoNormOut
  /\ page = NoPage

\* generateAdImage derives the mood of the image prompt from brandTone
Mood ==
  /\ ~normOut.done
  /\ normOut' = [done |-> TRUE, out |-> <<getMoodFromBrandTone(joinedTone(normIn.list))>>]
  /\ UNCHANGED <<page, variant, env, profile, now, processQueue, pc, job, loc, run, resp,
                 pollResp, normIn>>

NextMood == Mood

\* ---------------------------------------------------- the parse step alone
ContentTokens == {"fence", "json", "\n", "q", "x"}

InitFence ==
  /\ variant = "link"
  /\ env = {}
  /\ profile = "single"
  /\ now = 0
  /\ processQueue = EmptyQueue
  /\ pc = [r \in AllReqs |-> "idle"]
  /\ job = [r \in AllReqs |-> NoJob]
  /\ loc = [r \in AllReqs |-> NoLocals]
  /\ run = [r \in AllReqs |-> NoRun]
  /\ resp = [r \in AllReqs |-> NoResp]
  /\ pollResp = NoResp
  /\ normIn \in {[kind |-> "content", text |-> c, list |-> <<>>] :
                    c \in SeqsUpTo(ContentTokens, MaxContent)}
  /\ normOut = NoNormOut
  /\ page = NoPage

\* JSON.parse(cleanedContent) inside the try: out holds the parsed value, or
\* nothing when JSON.parse throws
Parse ==
  /\ ~normOut.done
  /\ LET parsed == JSONparse(cleanedContent(normIn.text))
     IN  normOut' = [done |-> TRUE,
                     out |-> IF parsed.ok THEN <<parsed.value>> ELSE <<>>]
  /\ UNCHANGED <<page, variant, env, profile, now, processQueue, pc, job, loc, run, resp,
                 pollResp, normIn>>

NextFence == Parse

SpecFence == InitFence /\ [][NextFence]_vars

SpecMood == InitMood /\ [][NextMood]_vars

SpecNorm == InitNorm /\ [][NextNorm]_vars

\* several clients submitting and polling concurrently
Spec == Init /\ [][Next]_vars

\* one submission, over the full range of bodies and collaborator replies
SpecJob == InitJob /\ [][Next]_vars

\* one submission with every credential configured, its Maps link ranging
\* over LinkInputs
InitLinks == InitWith("links") /\ variant = "link" /\ env = Keys("link")

SpecLinks == InitLinks /\ [][Next]_vars

\* one submission that reaches the image stage, over the full range of
\* answers of the candidate image models
InitImages ==
  /\ InitWith("images")
  /\ variant = "link"
  /\ {"GOOGLE_PLACES_API_KEY", "GROQ_API_KEY"} \subseteq env

SpecImages == InitImages /\ [][Next]_vars

\* several submissions whose random id suffixes may coincide
InitIds == InitWith("ids")

SpecIds == InitIds /\ [][Next]_vars

\* =================================================================== claims
HasJob(r) == job[r] # NoJob
Rec(r) == processQueue[job[r]]
Terminal == {"completed", "error"}
Returned == {"returning", "done"}
IsPrefix(s, t) == Len(s) <= Len(t) /\ SubSeq(t, 1, Len(s)) = s

C2_Step ==
  \A id \in DOMAIN processQueue' :
    /\ processQueue'[id].status \in {"processing", "completed", "error"}
    /\ id \notin DOMAIN processQueue => processQueue'[id].status \in {"processing", "error"}
    /\ id \in DOMAIN processQueue =>
         \/ processQueue'[id].status = processQueue[id].status
         \/ /\ processQueue[id].status = "processing"
            /\ processQueue'[id].status \in Terminal

ClaimedOrder ==
  IF variant = "link"
  THEN <<"extractPlaceId", "fetchReviews", "preprocessReviews", "extractInsights",
         "generateContent", "generateAdImage">>
  ELSE <<"preprocessReviews", "extractInsights", "generateContent">>

StageAwaited(p) ==
  CASE p \in {"textSearch", "details"} -> "fetchReviews"
    [] p = "insights" -> "extractInsights"
    [] p = "content" -> "generateContent"
    [] p = "image" -> "generateAdImage"
    [] OTHER -> "none"

C3_StageOrder ==
  \A r \in AllReqs :
    LET st == run[r].started
        fin == run[r].finished
    IN  /\ IsPrefix(st, ClaimedOrder)
        /\ IsPrefix(fin, st)
        /\ Len(st) - Len(fin) <= 1
        /\ StageAwaited(pc[r]) # "none" =>
             /\ Len(st) = Len(fin) + 1
             /\ st[Len(st)] = StageAwaited(pc[r])
        /\ HasJob(r) /\ Rec(r).status = "completed" =>
             /\ fin = st
             /\ fin = IF variant = "link" /\ Rec(r).outputs.imageAd.k = "object"
                      THEN ClaimedOrder
                      ELSE SelectSeq(ClaimedOrder, LAMBDA x : x # "generateAdImage")

C3_Witness ==
  \E r \in AllReqs :
    /\ HasJob(r) /\ Rec(r).status = "completed"
    /\ run[r].finished = ClaimedOrder /\ variant = "link"

\* C4: a stage failure ends the job in error at once: a handler that has
\* left a stage unfinished has written status error with a message and is
\* in no later stage; the submission answers 200 with that error record;
\* a failure response is given only where no job record exists.
C4_FailureBecomesErrorRecord ==
  \A r \in AllReqs :
    /\ resp[r].code = 500 => ~HasJob(r)
    /\ HasJob(r) =>
         /\ (pc[r] \in Returned /\ Len(run[r].started) > Len(run[r].finished))
              => Rec(r).status = "error"
         /\ Rec(r).status = "error" =>
              /\ pc[r] \in Returned
              /\ "error" \in DOMAIN Rec(r)
              /\ Rec(r).error # ""
         /\ pc[r] = "done" =>
              /\ resp[r].code = 200
              /\ resp[r].body.status = Rec(r).status
              /\ Rec(r).status = "error" => resp[r].body.error = Rec(r).error

C4_Witness ==
  \E r \in AllReqs :
    /\ HasJob(r) /\ pc[r] = "done" /\ resp[r].code = 200
    /\ resp[r].body.status = "error"
    /\ run[r].started = ClaimedOrder /\ variant = "link"
    /\ "generateAdImage" \notin {run[r].finished[i] : i \in 1..Len(run[r].finished)}

\* C5: a submission whose body is no JSON is answered with a failure at
\* once; that step leaves the Job Store as it was, and the submission
\* never has a job record, a stage or a collaborator call.
C5_Step ==
  \A r \in AllReqs :
    run'[r].body = "invalid" =>
      /\ resp'[r].code = 500
      /\ pc'[r] = "done"
      /\ job'[r] = NoJob
      /\ run'[r].started = <<>> /\ run'[r].sent = 0
      /\ run[r].body # "invalid" => processQueue' = processQueue

C5_UnreadableBodyRejected == [][C5_Step]_vars

C5_Witness ==
  \E r \in AllReqs :
    /\ run[r].body = "invalid" /\ resp[r].code = 500
    /\ \E s \in AllReqs : s < r /\ HasJob(s) /\ Rec(s).status = "processing"

\* C6: every record is well-formed for its status: processing has only
\* form data, status and creation time; completed has insights and
\* outputs and no error message; error has a message and neither insights
\* nor outputs, also when the failing stage came after they were computed.
C6_RecordWellFormed ==
  \A id \in DOMAIN processQueue :
    LET rec == processQueue[id]
    IN  /\ rec.status = "processing" =>
             DOMAIN rec = {"formData", "status", "createdAt"}
        /\ rec.status = "completed" =>
             /\ DOMAIN rec = {"formData", "status", "createdAt", "insights", "outputs"}
             /\ rec.insights.kind # "undefined"
             /\ rec.outputs.kind # "undefined"
        /\ rec.status = "error" =>
             /\ DOMAIN rec = {"formData", "status", "createdAt", "error"}
             /\ rec.error # ""

C6_Witness ==
  \E r \in AllReqs :
    /\ HasJob(r) /\ Rec(r).status = "error"
    /\ "generateContent" \in {run[r].finished[i] : i \in 1..Len(run[r].finished)}
    /\ pc[r] = "done"

\* formData.preferredCTA[0] of a stored record
FirstPreferred(rec) ==
  IF Len(rec.formData.preferredCTA.a) > 0 THEN rec.formData.preferredCTA.a[1] ELSE Undefined

\* the call to action the server uses: the first preferred one, or the
\* default where there is none or it is empty
ServerCTA(rec) ==
  IF FirstPreferred(rec) \in {"", Undefined} THEN "Learn more" ELSE FirstPreferred(rec)

Completed == {id \in DOMAIN processQueue : processQueue[id].status = "completed"}

SectionsCarry(rec, c) ==
  /\ rec.outputs.json.k = "object" => rec.outputs.json.cta = c
  /\ rec.outputs.imageAd.k = "object" => rec.outputs.imageAd.cta = c

OfferedMarketingCopy == {reply.marketingCopy : reply \in ContentReplies}

\* C8 as stated: for a completed job the call to action of every section,
\* the CTA variants of the structured marketing copy included, equals
\* formData.preferredCTA[0].
C8_Original ==
  \A id \in Completed :
    LET rec == processQueue[id]
    IN  /\ SectionsCarry(rec, FirstPreferred(rec))
        /\ rec.outputs.marketingCopy.k = "bundle" =>
             \A i \in 1..Len(rec.outputs.marketingCopy.ctas) :
               rec.outputs.marketingCopy.ctas[i] = FirstPreferred(rec)

\* C8 amended: for a completed job the call to action of the flat ad-copy
\* object and of the image-ad descriptor equals formData.preferredCTA[0]
\* (or "Learn more" where that is missing or empty); the CTA variants of
\* the structured marketing copy are not post-processed: they are the
\* ones the collaborator returned.
C8_SectionCtasOverwrittenBundleKept ==
  \A id \in Completed :
    LET rec == processQueue[id]
    IN  /\ SectionsCarry(rec, ServerCTA(rec))
        /\ rec.outputs.kind = "object" => rec.outputs.marketingCopy \in OfferedMarketingCopy

C8_Witness ==
  \E id \in Completed :
    LET out == processQueue[id].outputs
    IN  /\ out.marketingCopy.k = "bundle"
        /\ out.json.k = "object"
        /\ out.json.cta = "Book now"
        /\ \A i \in 1..Len(out.marketingCopy.ctas) : out.marketingCopy.ctas[i] # "Book now"

\* the distinct non-empty trimmed lines of a pasted review text
DistinctLines(text) == {trim(split(text)[i]) : i \in 1..Len(split(text))} \ {<<>>}

\* C9: once insight extraction has succeeded, insights.reviewCount is the
\* number of normalized reviews sent in the insight request, whatever
\* count the collaborator reported; so the stored count of a completed
\* job is that job's normalized review count.
C9_ReviewCountIsInputCount ==
  \A r \in AllReqs :
    /\ pc[r] \in {"content", "image"} =>
         /\ loc[r].insights.reviewCount = run[r].sent
         /\ run[r].sent = Len(loc[r].reviews)
    /\ HasJob(r) /\ Rec(r).status = "completed" =>
         /\ Rec(r).insights.reviewCount = run[r].sent
         /\ variant = "manual" =>
              run[r].sent = Cardinality(DistinctLines(Rec(r).formData.reviews.s))

C9_Witness ==
  \E r \in AllReqs :
    /\ HasJob(r) /\ Rec(r).status = "completed"
    /\ Rec(r).insights.reviewCount = 4

\* position of the first entry of items equal to x
FirstAt(items, x) ==
  CHOOSE k \in 1..Len(items) : items[k] = x /\ \A j \in 1..(k - 1) : items[j] # x

\* C10: the output of preprocessReviews holds no empty string and no
\* string twice, every string in it is a trimmed entry of the input, and
\* the strings stand in the order of their first occurrence in the input.
C10_NormalizerOutput ==
  normOut.done =>
    LET out == normOut.out
        items == IF normIn.kind = "text" THEN mapTrim(split(normIn.text))
                 ELSE mapTrim(normIn.list)
    IN  /\ \A i \in 1..Len(out) : out[i] # <<>>
        /\ \A i, j \in 1..Len(out) : i < j => out[i] # out[j]
        /\ \A i \in 1..Len(out) : \E k \in 1..Len(items) : items[k] = out[i]
        /\ \A i, j \in 1..Len(out) :
             i < j => FirstAt(items, out[i]) < FirstAt(items, out[j])

C10_Witness ==
  /\ normOut.done
  /\ normIn.kind = "list"
  /\ normIn.list = <<<<"b">>, <<"a">>, <<"b", " ">>>>
  /\ normOut.out = <<<<"b">>, <<"a">>>>

\* the number of distinct non-empty trimmed entries of a list of reviews
DistinctCount(reviews) ==
  Cardinality({trim(reviews[i]) : i \in 1..Len(reviews)} \ {<<>>})

\* the submission of r has supplied its reviews: the pasted text, or the
\* reviews of the place details response
ReviewsKnown(r) ==
  /\ HasJob(r)
  /\ IF variant = "manual"
     THEN Rec(r).formData.json = "object" /\ Rec(r).formData.reviews.k = "string"
     ELSE run[r].fetched.has

NormalizedCount(r) ==
  IF variant = "manual" THEN Cardinality(DistinctLines(Rec(r).formData.reviews.s))
  ELSE DistinctCount(sliceReviews(run[r].fetched.reviews))

\* C11 as stated: a submission whose reviews normalize to fewer than 3
\* entries, zero entries included, is in error with the message "At least
\* 3 reviews are required".
C11_Original ==
  \A r \in AllReqs :
    ReviewsKnown(r) /\ NormalizedCount(r) < 3 =>
      /\ Rec(r).status = "error"
      /\ Rec(r).error = "At least 3 reviews are required"

\* C11 amended: a submission whose reviews normalize to fewer than 3
\* entries is in error and never completed; with one or two entries the
\* message is "At least 3 reviews are required"; with none the message is
\* that of the earlier check that found no review: "No reviews provided"
\* for an empty or whitespace-only text, "No reviews found for this place"
\* for a place without reviews, "No valid reviews found" for a place whose
\* reviews are all empty.
C11_TooFewReviewsIsError ==
  \A r \in AllReqs :
    ReviewsKnown(r) /\ NormalizedCount(r) < 3 =>
      /\ Rec(r).status = "error"
      /\ Rec(r).error =
           IF NormalizedCount(r) > 0 THEN "At least 3 reviews are required"
           ELSE IF variant = "manual" THEN "No reviews provided"
           ELSE IF run[r].fetched.reviews = <<>> THEN "No reviews found for this place"
           ELSE "No valid reviews found"

C11_Witness ==
  \E r \in AllReqs :
    /\ ReviewsKnown(r) /\ variant = "link" /\ pc[r] = "done"
    /\ run[r].fetched.reviews = <<<<"a">>, <<"b">>, <<" ", "a">>>>
    /\ resp[r].body.error = "At least 3 reviews are required"

AllSelectionsEmpty(formData) ==
  /\ formData.json = "object"
  /\ \A f \in {"businessType", "marketingGoal", "targetAudience", "advertisingPlatform",
               "brandTone", "preferredCTA"} : formData[f] = [k |-> "array", a |-> <<>>]

\* C12: the Job Store holds no record of a submission whose categorical
\* selections are all empty.
C12_EmptySelectionsRejected ==
  \A id \in DOMAIN processQueue : ~AllSelectionsEmpty(processQueue[id].formData)

\* a poll has just been answered
Polled == pollResp' # pollResp

\* C13: a poll without an id is answered 400 "Missing id parameter", a
\* poll with an id that is no key of the Job Store 404 "Job not found";
\* both leave the Job Store as it was.
C13_Step ==
  Polled /\ pollResp'.id \notin DOMAIN processQueue =>
    /\ processQueue' = processQueue
    /\ pollResp'.code = IF pollResp'.id = <<0, 0>> THEN 400 ELSE 404
    /\ pollResp'.body =
         [error |-> IF pollResp'.id = <<0, 0>> THEN "Missing id parameter"
                    ELSE "Job not found"]

C13_UnknownIdNotFound == [][C13_Step]_vars

C13_Witness ==
  /\ pollResp.code = 404
  /\ \E r \in AllReqs : HasJob(r) /\ Rec(r).status = "processing"

\* C14: a poll with the id of a job is answered 200 with the record then
\* stored under that id, which the poll leaves as it is; the error message
\* of a record never changes once stored, so the message a poll returns is
\* the one stored when the failure was caught.
C14_Step ==
  /\ Polled /\ pollResp'.id \in DOMAIN processQueue =>
       /\ pollResp'.code = 200
       /\ pollResp'.body = processQueue[pollResp'.id]
       /\ processQueue' = processQueue
  /\ \A id \in DOMAIN processQueue :
       processQueue[id].status = "error" => processQueue'[id] = processQueue[id]

C14_PollReturnsStoredRecord == [][C14_Step]_vars

C14_Witness ==
  /\ pollResp.code = 200
  /\ pollResp.body.status = "error"
  /\ pollResp.body.error = "At least 3 reviews are required"
  /\ \E r \in AllReqs : HasJob(r) /\ Rec(r).status = "processing"

Accepted == {r \in AllReqs : HasJob(r)}

\* C15: the Job Store holds one record for each accepted submission, and
\* no two submissions have the same identifier.
C15_OneRecordPerSubmission ==
  /\ Cardinality(DOMAIN processQueue) = Cardinality(Accepted)
  /\ \A r1, r2 \in Accepted : r1 # r2 => job[r1] # job[r2]

\* C16: an identifier that is a key of the Job Store is a key after every
\* step of a submission, a stage, a failure or a poll.
C16_Step == DOMAIN processQueue \subseteq DOMAIN processQueue'

C16_NeverDeleted == [][C16_Step]_vars

C16_Witness ==
  /\ pollResp.code = 200
  /\ \E r1, r2 \in AllReqs :
       /\ r1 # r2 /\ HasJob(r1) /\ HasJob(r2)
       /\ pc[r1] = "done" /\ pc[r2] = "done"
       /\ Rec(r1).status = "error" /\ Rec(r2).status = "completed"

\* the handler of request r takes this step
Acts(r) == pc'[r] # pc[r]

\* C17: a record is created or written only in a step of the handler whose
\* job it is, and that step leaves every other record as it was; a terminal
\* record holds the form data its own client submitted, and a completed one
\* the insights its own run extracted and the outputs generated from its
\* own form data.
C17_Step ==
  /\ \A id \in DOMAIN processQueue' :
       (id \notin DOMAIN processQueue \/ processQueue'[id] # processQueue[id]) =>
         \E r \in AllReqs : Acts(r) /\ job'[r] = id
  /\ \A r \in AllReqs :
       Acts(r) => \A id \in DOMAIN processQueue \ {job'[r]} :
                    processQueue'[id] = processQueue[id]
  /\ \A r \in AllReqs :
       job'[r] # NoJob /\ job'[r] \in DOMAIN processQueue' =>
         LET rec == processQueue'[job'[r]]
         IN  /\ rec.formData.businessName = BusinessName(r)
             /\ HasJob(r) => rec.formData = Rec(r).formData
             /\ (rec.status = "completed" /\ Rec(r).status = "processing") =>
                  /\ rec.insights = loc[r].insights
                  /\ pc[r] = "image" =>
                       /\ rec.outputs.json = loc[r].outputs.json
                       /\ rec.outputs.marketingCopy = loc[r].outputs.marketingCopy
                       /\ rec.outputs.imageAd.cta = loc[r].outputs.imageAd.cta
                  /\ pc[r] = "content" =>
                       \E reply \in ContentReplies :
                         rec.outputs = outputsFromReply(variant, reply, Rec(r).formData).v

MatchesAt(url, lits, stop, i) ==
  /\ i + Len(lits) <= Len(url)
  /\ \A k \in 1..Len(lits) : url[i + k - 1] \in lits[k]
  /\ url[i + Len(lits)] \notin stop

Matches(url, lits, stop) == \E i \in 1..Len(url) : MatchesAt(url, lits, stop, i)

\* the capture of the leftmost match: the longest stretch free of stop
CaptureOf(url, lits, stop) ==
  LET i == CHOOSE h \in 1..Len(url) :
             MatchesAt(url, lits, stop, h) /\ \A g \in 1..(h - 1) : ~MatchesAt(url, lits, stop, g)
      from == i + Len(lits)
      to == CHOOSE e \in from..Len(url) :
              /\ \A k \in from..e : url[k] \notin stop
              /\ e = Len(url) \/ url[e + 1] \in stop
  IN  SubSeq(url, from, to)

\* the four patterns in the claimed order of priority
ClaimedPatterns ==
  << [lits |-> <<{"place_id"}, {"="}>>, stop |-> {"&"}],
     [lits |-> <<{"?", "&"}, {"cid"}, {"="}>>, stop |-> {"&"}],
     [lits |-> <<{"/"}, {"place"}, {"/"}>>, stop |-> {"/", "@"}],
     [lits |-> <<{"/"}, {"place_id"}, {"/"}>>, stop |-> {"/", "?"}] >>

Matching(url) ==
  {n \in 1..4 : Matches(url, ClaimedPatterns[n].lits, ClaimedPatterns[n].stop)}

\* C18: the token extracted from the Maps link of a job is the capture of
\* the first of the four patterns, in the order place_id parameter, cid
\* parameter, /place/ segment, /place_id/ segment, that matches the link;
\* a job whose link matches none is in error with the invalid-link
\* message and has made no request to any collaborator.
C18_FirstMatchingPattern ==
  \A r \in AllReqs :
    HasJob(r) /\ Rec(r).formData.googleMapsLink.k = "string" =>
      LET url == Rec(r).formData.googleMapsLink.s
      IN  IF Matching(url) = {}
          THEN /\ ~run[r].extracted.found
               /\ Rec(r).status = "error"
               /\ Rec(r).error =
                    "Invalid Google Maps URL. Please provide a valid Google Maps business link."
               /\ run[r].calls = <<>>
          ELSE LET n == CHOOSE m \in Matching(url) : \A o \in Matching(url) : m <= o
               IN  /\ run[r].extracted.found
                   /\ run[r].extracted.id =
                        CaptureOf(url, ClaimedPatterns[n].lits, ClaimedPatterns[n].stop)

C18_Witness ==
  \E r \in AllReqs :
    /\ HasJob(r)
    /\ Rec(r).formData.googleMapsLink.s =
         <<"maps", "/", "place", "/", "Cafe", "?", "cid", "=", "1234",
           "&", "place_id", "=">>
    /\ run[r].extracted.id = <<"1234">>

\* the place lookups among the requests of a run
PlaceCalls(r) == SelectSeq(run[r].calls, LAMBDA c : c.api \in {"textSearch", "details"})

\* C19: when the token extracted from the link has the canonical place-id
\* shape, no text search is ever made: with the place credential set, the
\* first and only place lookup is the details lookup for that very token.
C19_CanonicalTokenSkipsSearch ==
  \A r \in AllReqs :
    run[r].extracted.found /\ isValidPlaceId(run[r].extracted.id) =>
      /\ pc[r] # "textSearch"
      /\ run[r].candidates = <<>>
      /\ IF "GOOGLE_PLACES_API_KEY" \in env
         THEN PlaceCalls(r) = <<Call("details", run[r].extracted.id, 0)>>
         ELSE PlaceCalls(r) = <<>>

C19_Witness ==
  \E r \in AllReqs :
    /\ run[r].extracted.id = <<"ChIJabc123">>
    /\ PlaceCalls(r) = <<Call("details", <<"ChIJabc123">>, 0)>>
    /\ HasJob(r) /\ Rec(r).status = "completed"

PlaceNotFoundMessages ==
  {"Failed to search for place: fetch failed",
   "Failed to search for place: Could not find place: ZERO_RESULTS",
   "Failed to search for place: Could not find place: OK"}

\* C20: when the extracted token has not the canonical shape, the first
\* place lookup is one text search for that token; a details lookup is
\* made only after it, once, for the id of the first candidate of the
\* search; after a failed search or one without candidates the job is in
\* error with a place-not-found message and no details lookup is made.
C20_SearchThenDetails ==
  \A r \in AllReqs :
    run[r].extracted.found /\ ~isValidPlaceId(run[r].extracted.id) =>
      LET calls == PlaceCalls(r)
          search == Call("textSearch", run[r].extracted.id, 0)
      IN  /\ "GOOGLE_PLACES_API_KEY" \in env => Len(calls) >= 1
          /\ Len(calls) <= 2
          /\ Len(calls) >= 1 => calls[1] = search
          /\ Len(calls) = 2 =>
               /\ run[r].candidates # <<>>
               /\ calls[2] = Call("details", run[r].candidates[1], 0)
          /\ (Len(calls) = 1 /\ pc[r] # "textSearch") =>
               /\ Rec(r).status = "error"
               /\ Rec(r).error \in PlaceNotFoundMessages
          /\ (Len(calls) >= 1 /\ run[r].candidates = <<>> /\ pc[r] # "textSearch") =>
               Len(calls) = 1

C20_Witness ==
  \E r \in AllReqs :
    /\ run[r].extracted.id = <<"1234">>
    /\ run[r].candidates = <<<<"ChIJxyz789">>, <<"ChIJabc123">>>>
    /\ PlaceCalls(r) = <<Call("textSearch", <<"1234">>, 0),
                         Call("details", <<"ChIJxyz789">>, 0)>>
    /\ HasJob(r) /\ Rec(r).status = "completed"

\* the first n entries of a sequence
Take(s, n) == SubSeq(s, 1, IF Len(s) < n THEN Len(s) ELSE n)

\* a review text that is empty after trimming
Blank(text) == trim(text) = <<>>

NoReviewsMessages == {"No reviews found for this place", "No valid reviews found"}

\* C21: of the reviews of a details response, fetchReviews returns the
\* texts among the first 50 that are non-empty after trimming, in their
\* order: at most 50 texts, none of them blank.  When there is no such
\* text it returns nothing and the job is in error with a no-reviews
\* message.
C21_FetchedReviews ==
  \A r \in AllReqs :
    run[r].fetched.has =>
      LET kept == SelectSeq(Take(run[r].fetched.reviews, 50), LAMBDA text : ~Blank(text))
      IN  IF kept = <<>>
          THEN /\ ~run[r].returned.has
               /\ Rec(r).status = "error"
               /\ Rec(r).error \in NoReviewsMessages
          ELSE /\ run[r].returned.has
               /\ run[r].returned.reviews = kept
               /\ Len(run[r].returned.reviews) <= 50
               /\ \A i \in 1..Len(kept) : ~Blank(run[r].returned.reviews[i])

C21_Witness ==
  \E r \in AllReqs :
    /\ run[r].fetched.has
    /\ Len(run[r].fetched.reviews) = 52
    /\ Len(run[r].returned.reviews) = 48
    /\ run[r].returned.reviews[1] = <<"1">>
    /\ run[r].returned.reviews[48] = <<"50">>
    /\ Rec(r).status = "completed"

\* the requests of a run to the candidate image models
ImageCalls(r) == SelectSeq(run[r].calls, LAMBDA c : c.api = "image")

\* an answer of a candidate model that carries an image
IsImage(reply) == reply.kind = "image"

\* C22: image synthesis requests the candidate models in list order, each
\* at most once, and only after the one before it has failed; the first
\* answer with an image content type ends the stage, and the job completes
\* with that image as imageUrl; after a failure of any kind the next
\* candidate is requested.
C22_FirstSuccessfulCandidate ==
  \A r \in AllReqs :
    LET calls == ImageCalls(r)
        answers == run[r].images
    IN  /\ Len(calls) <= 3
        /\ \A i \in 1..Len(calls) : calls[i].n = i
        /\ Len(calls) - Len(answers) = IF pc[r] = "image" THEN 1 ELSE 0
        /\ \A i \in 1..Len(answers) : i < Len(answers) => ~IsImage(answers[i])
        /\ (answers # <<>> /\ ~IsImage(answers[Len(answers)]) /\ Len(answers) < 3) =>
             pc[r] = "image"
        /\ (answers # <<>> /\ IsImage(answers[Len(answers)])) =>
             /\ pc[r] \in Returned
             /\ Rec(r).status = "completed"
             /\ Rec(r).outputs.imageAd.imageUrl =
                  "data:" \o answers[Len(answers)].contentType \o ";base64,"
                    \o answers[Len(answers)].payload
        /\ (HasJob(r) /\ Rec(r).status = "completed" /\ calls # <<>>) =>
             IsImage(answers[Len(answers)])

C22_Witness ==
  \E r \in AllReqs :
    /\ Len(run[r].images) = 3
    /\ run[r].images[1].kind = "loading"
    /\ run[r].images[2].kind = "httpError"
    /\ run[r].images[3] = ImageReply("image", "image/jpeg", "9j4AA", "")
    /\ ImageCalls(r) = <<Call("image", <<>>, 1), Call("image", <<>>, 2),
                         Call("image", <<>>, 3)>>
    /\ Rec(r).status = "completed"
    /\ Rec(r).outputs.imageAd.imageUrl = "data:image/jpeg;base64,9j4AA"

\* the image stage of r's job was entered and threw
ImageStageFailed(r) ==
  /\ HasJob(r)
  /\ \E i \in 1..Len(run[r].started) : run[r].started[i] = "generateAdImage"
  /\ \A i \in 1..Len(run[r].finished) : run[r].finished[i] # "generateAdImage"
  /\ pc[r] \in Returned

\* the failure reason the loop records for a candidate's answer
Reason(reply) ==
  IF reply.kind = "loading" THEN "Model is loading"
  ELSE IF reply.kind = "throw" THEN "fetch failed"
  ELSE reply.error

AllModelsFailed(reason) ==
  "Failed to generate image: Hugging Face API error: All models failed. Last error: "
    \o (IF reason = "" THEN "Unknown error" ELSE reason)
    \o ". Please check your API key and model availability."

\* C23 as stated: image synthesis fails only after all three candidates
\* have been tried and have failed, with the last candidate's failure
\* reason in the message.
C23_Original ==
  \A r \in AllReqs :
    ImageStageFailed(r) =>
      /\ Len(run[r].images) = 3
      /\ \A i \in 1..3 : ~IsImage(run[r].images[i])
      /\ Rec(r).status = "error"
      /\ Rec(r).error = AllModelsFailed(Reason(run[r].images[3]))

\* C23: with the image credential configured, image synthesis fails only
\* after all three candidates have been tried and have failed, and the
\* message is the all-models-failed message with the reason recorded for
\* the last candidate ("Unknown error" when that reason is empty); without
\* the credential it fails before any candidate is tried, with the message
\* naming the credential.
C23_FailsOnlyWhenExhaustedOrUnconfigured ==
  \A r \in AllReqs :
    ImageStageFailed(r) =>
      /\ Rec(r).status = "error"
      /\ IF "HUGGINGFACE_API_KEY" \in env
         THEN /\ Len(run[r].images) = 3
              /\ Len(ImageCalls(r)) = 3
              /\ \A i \in 1..3 : ~IsImage(run[r].images[i])
              /\ Rec(r).error = AllModelsFailed(Reason(run[r].images[3]))
         ELSE /\ run[r].images = <<>>
              /\ ImageCalls(r) = <<>>
              /\ Rec(r).error = "HUGGINGFACE_API_KEY environment variable is not set"

C23_Witness ==
  \E r \in AllReqs :
    /\ ImageStageFailed(r)
    /\ Len(run[r].images) = 3
    /\ run[r].images[2].kind = "jsonError"
    /\ run[r].images[3] = ImageReply("text", "text/plain", "", "")
    /\ Rec(r).error =
         "Failed to generate image: Hugging Face API error: All models failed. Last error: Unknown error. Please check your API key and model availability."

\* the mood table, by tone
MoodTable(tone) ==
  IF tone = "Professional" THEN "calm, confident"
  ELSE IF tone = "Friendly" THEN "warm, welcoming"
  ELSE IF tone = "Bold" THEN "energetic, modern"
  ELSE IF tone = "Premium" THEN "elegant, refined"
  ELSE "calm, confident"

\* C24: for every non-empty ordered list of brand tones the mood of the
\* image prompt is the table entry of the first tone of the list, whatever
\* the other selections are.
C24_MoodOfFirstTone ==
  (normIn.kind = "tones" /\ normOut.done /\ normIn.list # <<>>) =>
    normOut.out = <<MoodTable(normIn.list[1])>>

\* the credential a request to a collaborator is made with
CredentialOf(api) ==
  IF api \in {"textSearch", "details"} THEN "GOOGLE_PLACES_API_KEY"
  ELSE IF api = "image" THEN "HUGGINGFACE_API_KEY"
  ELSE IF variant = "link" THEN "GROQ_API_KEY" ELSE "OPENAI_API_KEY"

\* the stages that call a collaborator, and the request kinds of each
CallingStages == {"fetchReviews", "extractInsights", "generateContent", "generateAdImage"}

StageCalls(stage) ==
  IF stage = "fetchReviews" THEN {"textSearch", "details"}
  ELSE IF stage = "extractInsights" THEN {"insights"}
  ELSE IF stage = "generateContent" THEN {"content"}
  ELSE {"image"}

StageCredential(stage) == CredentialOf(CHOOSE api \in StageCalls(stage) : TRUE)

\* the credentials the pipeline of a completed job has needed
NeededCredentials(rec) ==
  IF variant = "manual" THEN {"OPENAI_API_KEY"}
  ELSE {"GOOGLE_PLACES_API_KEY", "GROQ_API_KEY"}
       \cup (IF rec.outputs.kind = "object" /\ rec.outputs.imageAd.k = "object"
             THEN {"HUGGINGFACE_API_KEY"} ELSE {})

\* C25: no request is ever made to a collaborator whose credential is not
\* configured; a job that has entered a stage whose credential is missing
\* has made no request of that stage and is in error with the message
\* naming that credential; every completed job had all the credentials
\* its pipeline needed.
C25_MissingCredentialFailsStage ==
  \A r \in AllReqs :
    /\ \A i \in 1..Len(run[r].calls) : CredentialOf(run[r].calls[i].api) \in env
    /\ \A i \in 1..Len(run[r].started) :
         LET stage == run[r].started[i]
         IN  (stage \in CallingStages /\ StageCredential(stage) \notin env) =>
               /\ i = Len(run[r].started)
               /\ \A j \in 1..Len(run[r].calls) : run[r].calls[j].api \notin StageCalls(stage)
               /\ pc[r] \in Returned
               /\ Rec(r).status = "error"
               /\ Rec(r).error = StageCredential(stage) \o " environment variable is not set"
    /\ (HasJob(r) /\ Rec(r).status = "completed") => NeededCredentials(Rec(r)) \subseteq env

C25_Witness ==
  \E r \in AllReqs :
    /\ variant = "link"
    /\ "HUGGINGFACE_API_KEY" \notin env
    /\ Len(run[r].calls) = 3
    /\ run[r].started[Len(run[r].started)] = "generateAdImage"
    /\ Rec(r).status = "error"
    /\ Rec(r).error = "HUGGINGFACE_API_KEY environment variable is not set"

\* an answer of the text-generation service that is a non-success
\* response, has no content, or has content that is no JSON
BadAnswer(a) == ~a.ok \/ a.content \in {"empty", "garbage"}

LLMCalls(r) == SelectSeq(run[r].calls, LAMBDA c : c.api \in {"insights", "content"})

LLMFailureMessages ==
  {"fetch failed", "Failed to parse AI response as JSON"}
  \cup {name \o " API error: Too Many Requests" : name \in {"Groq", "OpenAI"}}
  \cup {"No content returned from " \o name : name \in {"Groq", "OpenAI"}}

\* C26: after a non-success response, an empty content or a content that
\* is no JSON from the insight or the content request, the job is in error
\* with the failure's message: the record holds no insights and no
\* outputs, no further request is made, and the job is never completed.
C26_BadAnswerIsError ==
  \A r \in AllReqs :
    \A i \in 1..Len(run[r].llm) :
      BadAnswer(run[r].llm[i]) =>
        /\ i = Len(run[r].llm)
        /\ Len(LLMCalls(r)) = i
        /\ ImageCalls(r) = <<>>
        /\ pc[r] \in Returned
        /\ Rec(r).status = "error"
        /\ Rec(r).error \in LLMFailureMessages
        /\ "insights" \notin DOMAIN Rec(r)
        /\ "outputs" \notin DOMAIN Rec(r)

C26_Witness ==
  \E r \in AllReqs :
    /\ Len(run[r].llm) = 2
    /\ run[r].llm[1].ok /\ run[r].llm[1].content = "object"
    /\ run[r].llm[2].ok /\ run[r].llm[2].content = "garbage"
    /\ Rec(r).status = "error"
    /\ Rec(r).error = "Failed to parse AI response as JSON"

\* C27: in both build variants the response to an accepted submission
\* holds the identifier of the job and the record stored under that
\* identifier: its status and its insights, outputs or error.
C27_ResponseCarriesId ==
  \A r \in AllReqs :
    (pc[r] = "done" /\ HasJob(r) /\ resp[r].code = 200) =>
      /\ "id" \in DOMAIN resp[r].body
      /\ resp[r].body.id = job[r]
      /\ \A f \in DOMAIN Rec(r) : f \in DOMAIN resp[r].body /\ resp[r].body[f] = Rec(r)[f]

\* C28: the outputs of every completed job are an object holding all three
\* artifacts: json, marketingCopy and imageAd.
C28_AllThreeArtifacts ==
  \A r \in AllReqs :
    (HasJob(r) /\ Rec(r).status = "completed") =>
      /\ Rec(r).outputs.kind = "object"
      /\ Rec(r).outputs.json.k # "absent"
      /\ Rec(r).outputs.marketingCopy.k # "absent"
      /\ Rec(r).outputs.imageAd.k # "absent"

\* the requests of a run to the text-generation and image collaborators
GenerationCalls(r) ==
  SelectSeq(run[r].calls, LAMBDA c : c.api \in {"insights", "content", "image"})

\* C29: a job whose normalized review list has fewer than 3 entries never
\* makes the insight request, the content request or a request to an image
\* model, and none of these stages is entered.
C29_MinimumBeforeGeneration ==
  \A r \in AllReqs :
    (ReviewsKnown(r) /\ NormalizedCount(r) < 3) =>
      /\ GenerationCalls(r) = <<>>
      /\ run[r].llm = <<>> /\ run[r].images = <<>>
      /\ \A i \in 1..Len(run[r].started) :
           run[r].started[i] \notin {"extractInsights", "generateContent", "generateAdImage"}
      /\ pc[r] \notin {"insights", "content", "image"}

C29_Witness ==
  \E r \in AllReqs :
    /\ variant = "link"
    /\ ReviewsKnown(r) /\ NormalizedCount(r) = 2
    /\ Len(run[r].calls) = 2
    /\ run[r].calls[2].api = "details"
    /\ Rec(r).status = "error"
    /\ Rec(r).error = "At least 3 reviews are required"

\* two requests to the same collaborator endpoint: the same kind of
\* request and, among the image requests, the same candidate model
SameRequest(c, d) == c.api = d.api /\ (c.api = "image" => c.n = d.n)

\* C30: within one job no request is sent twice: at most one insight
\* request, one content request, one text search, one details lookup, and
\* one request to each candidate image model.
C30_NoRetry ==
  \A r \in AllReqs :
    \A i, j \in 1..Len(run[r].calls) :
      SameRequest(run[r].calls[i], run[r].calls[j]) => i = j

C30_Witness ==
  \E r \in AllReqs :
    /\ Len(run[r].calls) = 7
    /\ Len(ImageCalls(r)) = 3
    /\ Len(run[r].images) = 3
    /\ \A i \in 1..3 : ~IsImage(run[r].images[i])
    /\ Rec(r).status = "error"

\* the image stage of r's job has been entered
ImageStageEntered(r) ==
  \E i \in 1..Len(run[r].started) : run[r].started[i] = "generateAdImage"

\* the outputs hold an image-ad descriptor
HasImageAd(outputs) == outputs.kind = "object" /\ outputs.imageAd.k = "object"

\* C31: the image stage is entered only in the link variant and only for
\* outputs that hold an image-ad descriptor; a completed job of the link
\* variant has gone through the image stage exactly if its outputs hold
\* the descriptor, and then imageAd.imageUrl is the data reference
\* data:<content type>;base64,<payload> of the answer of the candidate
\* that succeeded; without the descriptor no image model is requested.
C31_ImageStageIffImageAd ==
  \A r \in AllReqs :
    /\ ImageStageEntered(r) => variant = "link"
    /\ pc[r] = "image" => ImageStageEntered(r) /\ HasImageAd(loc[r].outputs)
    /\ ImageCalls(r) # <<>> => ImageStageEntered(r)
    /\ (HasJob(r) /\ Rec(r).status = "completed" /\ variant = "link") =>
         /\ ImageStageEntered(r) <=> HasImageAd(Rec(r).outputs)
         /\ HasImageAd(Rec(r).outputs) =>
              /\ run[r].images # <<>>
              /\ LET answer == run[r].images[Len(run[r].images)]
                 IN  /\ IsImage(answer)
                     /\ Rec(r).outputs.imageAd.imageUrl =
                          "data:" \o answer.contentType \o ";base64," \o answer.payload
         /\ ~HasImageAd(Rec(r).outputs) => ImageCalls(r) = <<>> /\ run[r].images = <<>>

C31_Witness ==
  \E r \in AllReqs :
    /\ variant = "link"
    /\ HasJob(r) /\ Rec(r).status = "completed"
    /\ HasImageAd(Rec(r).outputs)
    /\ Len(run[r].images) = 2
    /\ Rec(r).outputs.imageAd.imageUrl = "data:image/png;base64,iVBOR"

\* the polls of the page that are in flight or scheduled
Outstanding == page.fetches + page.timers

LastOutcome == page.outcomes[Len(page.outcomes)]

\* C32: the page has at most one poll in flight or scheduled; a poll was
\* made after another only when that one had returned status processing;
\* after a poll a further one is scheduled exactly if that poll succeeded
\* and returned status processing, so that nothing is outstanding once
\* completed, error or a failure has been observed.
C32_PollsWhileProcessing ==
  page.open =>
    /\ Outstanding <= 1
    /\ \A i \in 1..Len(page.outcomes) :
         i < Len(page.outcomes) => page.outcomes[i] = "processing"
    /\ IF page.outcomes = <<>>
       THEN /\ page.timers = 0
            /\ page.fetches = IF page.jobId = MissingId THEN 0 ELSE 1
       ELSE /\ Outstanding = 1 <=> LastOutcome = "processing"
            /\ LastOutcome \in {"processing", "completed", "error", "failed"}

C32_Witness ==
  /\ page.open
  /\ page.outcomes = <<"processing", "processing", "completed">>
  /\ Outstanding = 0

\* the requests whose pipeline is suspended at an await
InFlight == {r \in AllReqs : pc[r] \notin {"idle", "returning", "done"}}

C36_ViewsFollowPolls ==
  /\ view(page) # "processing" =>
       /\ page.outcomes # <<>>
       /\ LastOutcome \in {"completed", "error"}
       /\ page.jobData.status = LastOutcome
       /\ view(page) = "error" <=> LastOutcome = "error"
  /\ (page.outcomes # <<>> /\ page.outcomes[1] = "failed") =>
       /\ Len(page.outcomes) = 1
       /\ Outstanding = 0
       /\ page.jobData = NoData
       /\ ~page.loading
       /\ view(page) = "processing"

C36_Witness ==
  /\ page.open /\ page.from = "address"
  /\ page.jobId = UnknownId
  /\ page.outcomes = <<"failed">>
  /\ ~page.loading
  /\ view(page) = "processing"

\* String.prototype.toLowerCase on the characters and texts the model uses
Lower(c) ==
  IF c = "A" THEN "a" ELSE IF c = "Great service!" THEN "great service!" ELSE c

LowerText(text) == [i \in 1..Len(text) |-> Lower(text[i])]

\* the entries given to the normalizer: the lines of the text, or the list
Entries == IF normIn.kind = "text" THEN split(normIn.text) ELSE normIn.list

\* C33: the normalizer drops nothing but empties and exact duplicates:
\* its output holds each non-empty trimmed entry of the input exactly once
\* and nothing else; two entries that differ in letter case only are both
\* kept, two that differ in surrounding whitespace only give one output
\* string; "Great service!", "great service!", "" give two entries.
C33_DropsOnlyEmptiesAndDuplicates ==
  (normOut.done /\ normIn.kind \in {"text", "list"}) =>
    LET out == normOut.out
        kept == {trim(Entries[i]) : i \in 1..Len(Entries)} \ {<<>>}
    IN  /\ {out[i] : i \in 1..Len(out)} = kept
        /\ Len(out) = Cardinality(kept)
        /\ \A i, j \in 1..Len(Entries) :
             LET x == trim(Entries[i])
                 y == trim(Entries[j])
             IN  /\ (x # <<>> /\ x # y /\ LowerText(x) = LowerText(y)) =>
                       \E k, l \in 1..Len(out) : k # l /\ out[k] = x /\ out[l] = y
                 /\ (x # <<>> /\ x = y) =>
                       Cardinality({k \in 1..Len(out) : out[k] \in {x, y}}) = 1
        /\ Entries = CaseReviews =>
             out = <<<<"Great service!">>, <<"great service!">>>>

C33_Witness ==
  /\ normOut.done
  /\ normIn.kind = "list"
  /\ normIn.list = <<<<"a">>, <<"A", " ">>, <<" ", "a">>>>
  /\ normOut.out = <<<<"a">>, <<"A">>>>

\* code-fence markup that may precede and follow the JSON text of an answer
FenceOpenings == {<<>>, <<"fence">>, <<"fence", "\n">>, <<"fence", "json">>,
                  <<"fence", "json", "\n">>}
FenceClosings == {<<>>, <<"fence">>, <<"\n", "fence">>, <<"fence", "\n">>}

\* C34: whenever the content is a valid JSON text, alone or between an
\* opening and a closing code fence, the value parsed after stripping is
\* the value of that JSON text, also when a string inside it holds the
\* fence characters.
C34_StrippingKeepsValue ==
  (normOut.done /\ normIn.kind = "content") =>
    \A opening \in FenceOpenings, closing \in FenceClosings :
      LET n == Len(normIn.text) - Len(opening) - Len(closing)
          text == SubSeq(normIn.text, Len(opening) + 1, Len(opening) + n)
      IN  (/\ (opening = <<>>) = (closing = <<>>)
           /\ n >= 0
           /\ normIn.text = opening \o text \o closing
           /\ JSONparse(text).ok)
            => normOut.out = <<JSONparse(text).value>>

\* C37: a poll, whatever id it asks for, leaves the Job Store and every
\* running pipeline as they were.
C37_Step ==
  Polled =>
    /\ processQueue' = processQueue
    /\ pc' = pc /\ loc' = loc /\ run' = run /\ job' = job /\ resp' = resp

C37_PollingIsReadOnly == [][C37_Step]_vars

\* a job polled while it was processing has been completed since
C37_Witness ==
  /\ pollResp.code = 200
  /\ pollResp.body.status = "processing"
  /\ pollResp.id \in DOMAIN processQueue
  /\ processQueue[pollResp.id].status = "completed"
  /\ "insights" \in DOMAIN processQueue[pollResp.id]

\* C38: the form data and the creation timestamp of a record never change
\* once it is stored: a step that creates a record stores the submitted
\* form data and the time of the submission, also when the same step makes
\* it an error record, and every later step, the transitions to completed
\* and to error included, leaves both as they are.
C38_Step ==
  \A id \in DOMAIN processQueue' :
    IF id \in DOMAIN processQueue
    THEN /\ processQueue'[id].formData = processQueue[id].formData
         /\ processQueue'[id].createdAt = processQueue[id].createdAt
    ELSE \E r \in AllReqs :
           /\ job[r] = NoJob /\ job'[r] = id
           /\ processQueue'[id].createdAt = now'
           /\ \E body \in Bodies : processQueue'[id].formData = Submitted(r, body)

C39_ReviewCountRange ==
  \A r \in AllReqs :
    /\ (HasJob(r) /\ Rec(r).status = "completed") =>
         /\ Rec(r).insights.reviewCount >= 3
         /\ variant = "link" => Rec(r).insights.reviewCount <= 50
    /\ (ReviewsKnown(r) /\ NormalizedCount(r) < 3) => Rec(r).status # "completed"

C39_Witness ==
  \E r \in AllReqs :
    /\ variant = "link"
    /\ HasJob(r) /\ Rec(r).status = "completed"
    /\ Len(run[r].fetched.reviews) = 51
    /\ Rec(r).insights.reviewCount = 50

====
